---- MODULE Spec2Model ----
(***************************************************************************)
(* State persistence subsystem of shetty4l/core: the StateLoader facade    *)
(* (src/src/state/loader.ts) over an embedded SQL store.                   *)
(*                                                                         *)
(* The JavaScript host is single-threaded: every action below is one       *)
(* synchronous run-to-completion piece of loader code (a proxy set trap, a *)
(* timer callback, flush(), a collection call, one leg of transaction()    *)
(* between two awaits).  Time passes only between such pieces.             *)
(***************************************************************************)
EXTENDS Integers, Sequences, FiniteSets, TLC

\* ------------------------------------------------------------------ bounds
MaxTimers == 3
TickMs == 50
MaxNow == 1
MaxStr == 2

\* ------------------------------------------------------- program constants
DEBOUNCE_MS == 100

\* ----------------------------------------------------------------- domains
Keys == {"k1", "k2"}
Handles == {"h1", "h2"}
Numbers == {0, 1}
Names == {"default", "x"}
NoKey == "none"

\* Map<K,V> of the host language: a function on the set of keys present.
EmptyMap == << >>
\* The store: the rows of the singleton table and of the collection table,
\* each table's column set (empty: the table does not exist) and the
\* collection table's indices.  A row maps the columns that hold a value to
\* it; a column of the table outside the row's domain is NULL in that row.
EmptyStore == [single |-> EmptyMap, coll |-> EmptyMap,
               scols |-> {}, ccols |-> {}, cidx |-> {}]
MapHas(m, k) == k \in DOMAIN m
MapSet(m, k, v) == [x \in (DOMAIN m) \cup {k} |-> IF x = k THEN v ELSE m[x]]
MapDelete(m, k) == [x \in (DOMAIN m) \ {k} |-> m[x]]

Range(seq) == {seq[i] : i \in 1 .. Len(seq)}
\* Object.assign / row overlay: the entries of upd over those of m.
Merge(m, upd) ==
    [x \in (DOMAIN m) \cup (DOMAIN upd) |-> IF x \in DOMAIN upd THEN upd[x] ELSE m[x]]

Max(a, b) == IF a >= b THEN a ELSE b
Min(a, b) == IF a <= b THEN a ELSE b

VARIABLES
    db,            \* the store as the loader's connection sees it
    committed,     \* the durable store (what survives a ROLLBACK)
    inTx,          \* the connection has an open transaction
    hkey,          \* handle -> key it was loaded for (NoKey: not loaded)
    obj,           \* handle -> the in-memory target object behind the proxy
    timers,        \* StateLoader.timers: saveKey -> timer handle
    pendingSaves,  \* StateLoader.pendingSaves: saveKey -> target of the closure
    liveTimers,    \* the host's scheduled timers: [id, key, left]
    sinceWrite,    \* history: ms since the last declared-field write of the
                   \* key's current debounce series (DEBOUNCE_MS: none)
    rescheduled,   \* history: the current debounce series was rescheduled
    ev,            \* history: the last singleton operation and the UPDATEs
                   \* it executed per key
    tasks,         \* the transaction() calls in flight, one record per call
    txPre,         \* history: the store when the open transaction began
    fnWrote,       \* history: id -> the value the callback last wrote there
    res,           \* history: the last collection/transaction operation
    now,           \* the store's clock, as datetime('now') reads it
    ents,          \* entity slot -> the collection entity a caller holds
    classMeta,     \* class -> ClassMeta installed by Persisted
    collectionMeta,       \* class -> CollectionMeta installed by PersistedCollection
    globalPendingFields,  \* decorators.ts: fields staged for Persisted
    collPending    \* collection decorators: staged fields, id, id count, indices

vars == <<db, committed, inTx, hkey, obj, timers, pendingSaves, liveTimers,
          sinceWrite, rescheduled, ev, tasks, txPre, fnWrote, res, now, ents,
          classMeta, collectionMeta, globalPendingFields, collPending>>

txVars == <<tasks, txPre, fnWrote>>
entVars == <<now, ents>>
regVars == <<classMeta, collectionMeta, globalPendingFields, collPending>>

\* ------------------------------------------------------------------ schema
\* Metadata as the schema functions read it: the field columns in
\* declaration order and, for a collection, the id column and the column
\* list of each index.  BasicMeta is the current singleton class, LegacyMeta
\* an older version of it that wrote to the same table; CollMeta is the
\* collection class, OldCollMeta an older version of it.
BasicMeta == [fields |-> <<"name", "count">>]
LegacyMeta == [fields |-> <<"name", "legacy">>]
CollMeta == [idColumn |-> "id", fields |-> <<"balance">>, indices |-> <<<<"balance">>>>]
OldCollMeta == [idColumn |-> "id", fields |-> <<"owner">>, indices |-> <<<<"owner">>>>]

HasDuplicate(seq) == \E i, j \in 1 .. Len(seq) : i # j /\ seq[i] = seq[j]

\* CREATE TABLE IF NOT EXISTS t (<columns>): [err, cols].  Nothing happens
\* when the table exists; a column list naming one column twice is refused.
CreateTableIfNotExists(cols, columns) ==
    IF cols # {} THEN [err |-> "none", cols |-> cols]
    ELSE IF HasDuplicate(columns) THEN [err |-> "DuplicateColumn", cols |-> cols]
    ELSE [err |-> "none", cols |-> Range(columns)]

EnsureTable(cols, meta) ==
    CreateTableIfNotExists(cols, <<"key">> \o meta.fields \o <<"updated_at">>)

EnsureCollectionTable(cols, meta) ==
    CreateTableIfNotExists(cols, <<meta.idColumn>> \o meta.fields
                                   \o <<"created_at", "updated_at">>)

\* The ALTER TABLE ... ADD COLUMN loop: `existing` is the column set read
\* once by PRAGMA table_info before the loop, `cols` the table as altered so
\* far.  ADD COLUMN on a missing table, or of a column the table has, throws
\* and the columns added before it stay.
RECURSIVE AddMissing(_, _, _)
AddMissing(cols, existing, columns) ==
    IF columns = << >> THEN [err |-> "none", cols |-> cols]
    ELSE IF Head(columns) \in existing THEN AddMissing(cols, existing, Tail(columns))
    ELSE IF cols = {} THEN [err |-> "NoSuchTable", cols |-> cols]
    ELSE IF Head(columns) \in cols THEN [err |-> "DuplicateColumn", cols |-> cols]
    ELSE AddMissing(cols \cup {Head(columns)}, existing, Tail(columns))

\* A migration that rebuilds the table from the metadata.
MigrateAdditive_Rebuild(cols, meta) ==
    IF cols = {} THEN [err |-> "NoSuchTable", cols |-> cols]
    ELSE [err |-> "none", cols |-> {"key", "updated_at"} \cup Range(meta.fields)]

MigrateAdditive(cols, meta) ==
    AddMissing(cols, cols, meta.fields \o <<"updated_at">>)

MigrateCollectionAdditive(cols, meta) ==
    AddMissing(cols, cols, meta.fields \o <<"created_at", "updated_at">>)

\* CREATE INDEX IF NOT EXISTS per index of the metadata, in order: [err, idx].
\* An index is known by its column list (its name is derived from it).
RECURSIVE EnsureIndexList(_, _, _)
EnsureIndexList(cols, idx, indices) ==
    IF indices = << >> THEN [err |-> "none", idx |-> idx]
    ELSE IF Head(indices) \in idx THEN EnsureIndexList(cols, idx, Tail(indices))
    ELSE IF cols = {} THEN [err |-> "NoSuchTable", idx |-> idx]
    ELSE IF ~(Range(Head(indices)) \subseteq cols) THEN [err |-> "NoSuchColumn", idx |-> idx]
    ELSE EnsureIndexList(cols, idx \cup {Head(indices)}, Tail(indices))

\* CREATE INDEX without IF NOT EXISTS: an index that exists is an error.
EnsureIndices_Plain(cols, idx, meta) ==
    IF Range(meta.indices) \cap idx # {} THEN [err |-> "IndexExists", idx |-> idx]
    ELSE EnsureIndexList(cols, idx, meta.indices)

EnsureIndices(cols, idx, meta) == EnsureIndexList(cols, idx, meta.indices)

\* The schema calls that open load() and exists(), and those that open every
\* collection call: the store they leave.
WithTable(store, meta) ==
    [store EXCEPT !.scols = MigrateAdditive(EnsureTable(store.scols, meta).cols, meta).cols]

WithCollectionTable(store, meta) ==
    LET c == MigrateCollectionAdditive(EnsureCollectionTable(store.ccols, meta).cols,
                                       meta).cols
    IN  [store EXCEPT !.ccols = c, !.cidx = EnsureIndices(c, store.cidx, meta).idx]

\* ------------------------------------------------------------ registration
\* Classes are named by strings.  BasicState and LegacyState are registered
\* with Persisted and TxAccount with PersistedCollection when the
\* application's modules are evaluated; the other classes are defined later.
\* Parent is the `extends` clause of each class: PlainBase, PlainMid and
\* PlainColl are plain classes that carry no decorator.  S1 .. S4 are written
\* with the singleton decorators, C1 .. C4 with the collection decorators.
NoClass == "none"
PlainClasses == {"PlainBase", "PlainMid", "PlainColl"}
SingletonClasses == {"S1", "S2", "S3", "S4"}
CollectionClasses == {"C1", "C2", "C3", "C4"}
Parent(cls) ==
    CASE cls = "S1" -> "PlainBase"
      [] cls = "S2" -> "S1"
      [] cls = "S3" -> "PlainMid"
      [] cls = "PlainMid" -> "BasicState"
      [] cls = "S4" -> "TxAccount"
      [] cls = "C2" -> "C1"
      [] cls = "C3" -> "PlainColl"
      [] cls = "PlainColl" -> "TxAccount"
      [] OTHER -> NoClass

\* The prototype chain above the class, up to Function.prototype.
RECURSIVE Ancestors(_)
Ancestors(cls) ==
    IF Parent(cls) = NoClass THEN {} ELSE {Parent(cls)} \cup Ancestors(Parent(cls))

\* toSnakeCase over the property names used here: an upper-case letter after
\* the first becomes an underscore and its lower case.
ToSnakeCase(property) ==
    CASE property = "lastLogin" -> "last_login"
      [] property = "userId" -> "user_id"
      [] OTHER -> property

\* A declaration as written in the class body: the property, the type
\* argument and the column option (NoOption: not given).
NoOption == "none"
Decl(property, type, column) == [property |-> property, type |-> type, column |-> column]

\* Map.set on the accumulator, a Map in insertion order: a property that is
\* there keeps its place and takes the new definition.
PendingSet(pending, def) ==
    IF \E i \in 1 .. Len(pending) : pending[i].property = def.property
      THEN [i \in 1 .. Len(pending) |->
              IF pending[i].property = def.property THEN def ELSE pending[i]]
      ELSE Append(pending, def)

\* The Field decorator (of either module) applied to one property of the
\* class `owner`.  `owner` is history: no code reads it.
Field(pending, owner, d) ==
    PendingSet(pending,
               [property |-> d.property,
                column |-> IF d.column = NoOption THEN ToSnakeCase(d.property) ELSE d.column,
                type |-> d.type,
                owner |-> owner])

RECURSIVE StageFields(_, _, _)
StageFields(pending, owner, decls) ==
    IF decls = << >> THEN pending
    ELSE StageFields(Field(pending, owner, Head(decls)), owner, Tail(decls))

\* Persisted with a mutation: the accumulator is read but not cleared.
Persisted_KeepPending(cm, pending, target) ==
    IF Ancestors(target) \cap DOMAIN cm # {}
      THEN [err |-> "Inheritance", classMeta |-> cm, pending |-> pending]
      ELSE [err |-> "none",
            classMeta |-> MapSet(cm, target, [table |-> target, fields |-> pending]),
            pending |-> pending]

\* Persisted with a mutation: only the direct superclass is looked at.
Persisted_ParentOnly(cm, pending, target) ==
    IF Parent(target) \in DOMAIN cm
      THEN [err |-> "Inheritance", classMeta |-> cm, pending |-> pending]
      ELSE [err |-> "none",
            classMeta |-> MapSet(cm, target, [table |-> target, fields |-> pending]),
            pending |-> << >>]

\* The class decorator returned by Persisted(table), applied to target:
\* [err, classMeta, pending].
Persisted(cm, pending, target) ==
    IF Ancestors(target) \cap DOMAIN cm # {}
      THEN [err |-> "Inheritance", classMeta |-> cm, pending |-> pending]
      ELSE [err |-> "none",
            classMeta |-> MapSet(cm, target, [table |-> target, fields |-> pending]),
            pending |-> << >>]

\* The accumulators of the collection decorators, and resetGlobalState.
NoId == [property |-> "none", column |-> "none", type |-> "none", owner |-> "none"]
EmptyPending == [fields |-> << >>, id |-> NoId, idCount |-> 0, indices |-> << >>]

Id(pend, owner, d) ==
    [pend EXCEPT !.idCount = @ + 1,
                 !.id = [property |-> d.property,
                         column |-> IF d.column = NoOption THEN "id" ELSE d.column,
                         type |-> d.type,
                         owner |-> owner]]

RECURSIVE StageIds(_, _, _)
StageIds(pend, owner, decls) ==
    IF decls = << >> THEN pend
    ELSE StageIds(Id(pend, owner, Head(decls)), owner, Tail(decls))

\* The Index decorator on a property, without a columns argument.
Index(pend, owner, property) ==
    [pend EXCEPT !.indices = Append(@, [columns |-> <<ToSnakeCase(property)>>,
                                        owner |-> owner])]

RECURSIVE StageIndices(_, _, _)
StageIndices(pend, owner, props) ==
    IF props = << >> THEN pend
    ELSE StageIndices(Index(pend, owner, Head(props)), owner, Tail(props))

\* PersistedCollection with a mutation: the last staged id is taken, however
\* many were staged.
PersistedCollection_AnyIdCount(cm, pend, target) ==
    IF Ancestors(target) \cap DOMAIN cm # {}
      THEN [err |-> "Inheritance", collectionMeta |-> cm, pending |-> EmptyPending]
    ELSE [err |-> "none",
          collectionMeta |->
              MapSet(cm, target,
                     [table |-> target, idProperty |-> pend.id.property,
                      idColumn |-> pend.id.column, idType |-> pend.id.type,
                      fields |-> pend.fields, indices |-> pend.indices]),
          pending |-> EmptyPending]

\* The class decorator returned by PersistedCollection(table), applied to
\* target: [err, collectionMeta, pending].
PersistedCollection(cm, pend, target) ==
    IF Ancestors(target) \cap DOMAIN cm # {}
      THEN [err |-> "Inheritance", collectionMeta |-> cm, pending |-> EmptyPending]
    ELSE IF pend.id = NoId
      THEN [err |-> "NoId", collectionMeta |-> cm, pending |-> EmptyPending]
    ELSE IF pend.idCount > 1
      THEN [err |-> "MultipleId", collectionMeta |-> cm, pending |-> EmptyPending]
    ELSE [err |-> "none",
          collectionMeta |->
              MapSet(cm, target,
                     [table |-> target, idProperty |-> pend.id.property,
                      idColumn |-> pend.id.column, idType |-> pend.id.type,
                      fields |-> pend.fields, indices |-> pend.indices]),
          pending |-> EmptyPending]

\* The registries once the application's classes are defined.
InitialClassMeta ==
    MapSet(MapSet(EmptyMap, "BasicState",
        Persisted(EmptyMap,
                  StageFields(<< >>, "BasicState",
                              <<Decl("name", "string", NoOption),
                                Decl("count", "number", NoOption)>>),
                  "BasicState").classMeta["BasicState"]),
      "LegacyState",
        Persisted(EmptyMap,
                  StageFields(<< >>, "LegacyState",
                              <<Decl("name", "string", NoOption),
                                Decl("legacy", "number", NoOption)>>),
                  "LegacyState").classMeta["LegacyState"])

InitialCollectionMeta ==
    PersistedCollection(
        EmptyMap,
        StageIndices(
            [StageIds(EmptyPending, "TxAccount", <<Decl("id", "string", NoOption)>>)
               EXCEPT !.fields = StageFields(<< >>, "TxAccount",
                                             <<Decl("balance", "number", NoOption)>>)],
            "TxAccount", <<"balance">>),
        "TxAccount").collectionMeta

\* --------------------------------------------------------------- singleton
\* class BasicState { @Field name = "default"; @Field count = 0; scratch }
Defaults == [name |-> "default", count |-> 0, scratch |-> 0]
DeclaredFields == {"name", "count"}
Props == {"name", "count", "scratch"}
PropValues(p) == IF p = "name" THEN Names ELSE Numbers

\* The calls the callers make: handle h1 is loaded for k1, handle h2 for
\* either key (a second handle on k1, or a second key).
LoadableKeys(h) == IF h = "h1" THEN {"k1"} ELSE Keys
WritableProps(h) == IF h = "h1" THEN Props ELSE DeclaredFields

NoUpdates == [k \in Keys |-> 0]
NoEv == [op |-> "other", n |-> NoUpdates, re |-> FALSE, since |-> DEBOUNCE_MS]

\* What a step of the singleton surface leaves in res: whether it ran a write
\* statement on the connection while a transaction() was open.
SingletonRes(wrote) == [op |-> "singleton", foreign |-> (inTx /\ wrote)]

\* class LegacyState { @Field name = "default"; @Field legacy = 1 }: the
\* version of the class an older deployment used on the same table.  A handle
\* names the class it was loaded with.
LegacyHandles == {"h0"}
LegacyDefaults == [name |-> "default", legacy |-> 1]
\* Handle hc stands for the result of a load() called with the collection
\* class.
CollectionHandles == {"hc"}
AllHandles == Handles \cup LegacyHandles \cup CollectionHandles
ClassOf(h) ==
    IF h \in LegacyHandles THEN "LegacyState"
    ELSE IF h \in CollectionHandles THEN "TxAccount"
    ELSE "BasicState"

\* classMeta.get(Cls), as the schema functions read it: the field columns in
\* declaration order.
ClassMetaOf(cls) ==
    [fields |-> [i \in 1 .. Len(classMeta[cls].fields) |-> classMeta[cls].fields[i].column]]
MetaOf(h) == ClassMetaOf(ClassOf(h))

\* meta.fields.has(prop): the properties the class declares with @Field.
FieldProps(cls) ==
    {classMeta[cls].fields[i].property : i \in 1 .. Len(classMeta[cls].fields)}

\* The guard with a mutation: the collection registry is not consulted.
SingletonGuard_NoCollectionCheck(cls) ==
    IF ~MapHas(classMeta, cls) THEN "NotDecorated" ELSE "none"

\* The checks that open load() and exists(): the error thrown, or "none".
SingletonGuard(cls) ==
    IF MapHas(collectionMeta, cls) THEN "IsCollection"
    ELSE IF ~MapHas(classMeta, cls) THEN "NotDecorated"
    ELSE "none"
DefaultsOf(h) == IF h \in LegacyHandles THEN LegacyDefaults ELSE Defaults
FieldColumns == Range(BasicMeta.fields) \cup Range(LegacyMeta.fields)

\* serializeValue for the declared fields of the target's class: String(v)
\* and the finite number.  (A target holds its class's fields and, at most,
\* the undeclared `scratch`.)
RowOf(target) == [c \in (DOMAIN target) \cap FieldColumns |-> target[c]]

\* A hydration that copies every declared column, NULL included.
Hydrate_Overwrite(defaults, row) ==
    [p \in DOMAIN defaults |-> IF p \in DOMAIN row THEN row[p]
                               ELSE IF p \in FieldColumns THEN 0 - 2
                               ELSE defaults[p]]

\* deserializeValue over a stored row into a fresh instance: a column that
\* is NULL in the row leaves the instance's default.
Hydrate(defaults, row) ==
    [p \in DOMAIN defaults |-> IF p \in DOMAIN row THEN row[p] ELSE defaults[p]]

InsertRow(single, k, target) == MapSet(single, k, RowOf(target))

\* UPDATE ... WHERE key = ?  (no row: nothing changes)
SaveRow(single, k, target) ==
    IF MapHas(single, k) THEN [single EXCEPT ![k] = Merge(@, RowOf(target))] ELSE single

\* A statement run on the connection: durable at once unless a transaction
\* is open.
DbApply(newdb) ==
    /\ db' = newdb
    /\ committed' = IF inTx THEN committed ELSE newdb

\* -------------------------------------------------------------- collection
\* class TxAccount { @Id id; @Field("number") balance = 0 }
Ids == {"a1", "a2"}
NaN == 0 - 1
Null == 0 - 2
CollDefaults == [balance |-> 0]

\* The entities callers hold: the instance create/get/upsert returned, bound
\* with save() and delete().  `origin` is history: the id the entity had when
\* it was returned.
Ents == {"e1"}
NoEnt == "none"
NoEntity == [live |-> FALSE, id |-> "none", balance |-> 0, origin |-> "none"]
Bound(id, v) == [live |-> TRUE, id |-> id, balance |-> v, origin |-> id]
Values == Numbers \cup {Null}

\* What a row holds in a column: its value, or NULL.
CellOf(row, c) == IF MapHas(row, c) THEN row[c] ELSE Null

\* A cell assignment: NULL leaves the column outside the row's domain.
SetCell(row, c, v) == IF v = Null THEN MapDelete(row, c) ELSE MapSet(row, c, v)

\* serializeValue(value, "number"): NaN is refused.
SerializeThrows(v) == v = NaN

InsertCollectionRow_Replace(coll, id, v) ==
    IF SerializeThrows(v)
      THEN [err |-> "NaN", coll |-> coll]
      ELSE [err |-> "none",
            coll |-> MapSet(coll, id, SetCell([created_at |-> now, updated_at |-> now],
                                              "balance", v))]

\* INSERT INTO t (id, created_at, updated_at, balance) VALUES (?,
\* datetime('now'), datetime('now'), ?): the values are serialized first; the
\* primary key refuses a second row.
InsertCollectionRow(coll, id, v) ==
    IF SerializeThrows(v)
      THEN [err |-> "NaN", coll |-> coll]
    ELSE IF MapHas(coll, id)
      THEN [err |-> "Constraint", coll |-> coll]
    ELSE [err |-> "none",
          coll |-> MapSet(coll, id, SetCell([created_at |-> now, updated_at |-> now],
                                            "balance", v))]

\* A filter object: given = FALSE is `undefined`; entries keep the object's
\* key order; an entry with def = FALSE has the value `undefined`.
KnownProps == {"id", "balance"}
Conditions(where) ==
    IF ~where.given \/ Len(where.entries) = 0
      THEN << >>
      ELSE SelectSeq(where.entries, LAMBDA e : e.def)

\* getColumn throws for a property that is no id, field or timestamp.
UnknownIn(conds) == \E i \in 1 .. Len(conds) : conds[i].prop \notin KnownProps

\* buildWhere: the error it throws, or the conditions; sql is "" exactly when
\* conds is empty.
BuildWhere(where) ==
    IF UnknownIn(Conditions(where))
      THEN [err |-> "UnknownProperty", conds |-> << >>]
      ELSE [err |-> "none", conds |-> Conditions(where)]

\* The rows the AND of the conditions selects (raw values are `eq`).
Holds(e, id, row) ==
    IF e.prop = "id" THEN id = e.val ELSE MapHas(row, "balance") /\ row.balance = e.val
Matching(coll, conds) ==
    {id \in DOMAIN coll : \A i \in 1 .. Len(conds) : Holds(conds[i], id, coll[id])}

\* The SET clause of updateWhere: undefined values and unknown properties of
\* `updates` are skipped; the rest are serialized (which may throw).
SetClauses(updates) ==
    SelectSeq(updates, LAMBDA u : u.def /\ u.prop \in KnownProps)
SetThrows(updates) ==
    \E i \in 1 .. Len(SetClauses(updates)) :
        SetClauses(updates)[i].prop = "balance" /\ SerializeThrows(SetClauses(updates)[i].val)

\* The columns one UPDATE assigns: the last assignment to a column wins.
RECURSIVE SetRow(_, _)
SetRow(row, sets) ==
    IF sets = << >> THEN row
    ELSE SetRow(IF Head(sets).prop = "balance"
                  THEN SetCell(row, "balance", Head(sets).val) ELSE row,
                Tail(sets))
RECURSIVE SetId(_, _)
SetId(id, sets) ==
    IF sets = << >> THEN id
    ELSE SetId(IF Head(sets).prop = "id" THEN Head(sets).val ELSE id, Tail(sets))

\* UPDATE t SET updated_at = datetime('now'), ... WHERE <conds>.  An assignment to the id column that would
\* give two rows one primary key aborts the statement: nothing changes.
KeyClash(coll, m, sets) ==
    \E a \in m : \E b \in DOMAIN coll :
        a # b /\ SetId(a, sets) = (IF b \in m THEN SetId(b, sets) ELSE b)
RunUpdate_AllRows(coll, conds, sets) ==
    [err |-> "none",
     changes |-> Cardinality(DOMAIN coll),
     coll |-> [id \in DOMAIN coll |-> SetRow([coll[id] EXCEPT !.updated_at = now], sets)]]

RunUpdate(coll, conds, sets) ==
    IF KeyClash(coll, Matching(coll, conds), sets)
      THEN [err |-> "Constraint", changes |-> 0, coll |-> coll]
      ELSE [err |-> "none",
            changes |-> Cardinality(Matching(coll, conds)),
            coll |-> [id \in {IF a \in Matching(coll, conds) THEN SetId(a, sets) ELSE a :
                              a \in DOMAIN coll} |->
                        LET a == CHOOSE x \in DOMAIN coll :
                                   (IF x \in Matching(coll, conds)
                                      THEN SetId(x, sets) ELSE x) = id
                        IN  IF a \in Matching(coll, conds)
                              THEN SetRow([coll[a] EXCEPT !.updated_at = now], sets)
                              ELSE coll[a]]]

UpdateWhere_NoGuard(coll, where, updates) ==
    IF SetThrows(updates)
      THEN [err |-> "NaN", changes |-> 0, coll |-> coll]
    ELSE IF BuildWhere(where).err # "none"
      THEN [err |-> BuildWhere(where).err, changes |-> 0, coll |-> coll]
    ELSE RunUpdate(coll, BuildWhere(where).conds, SetClauses(updates))

\* updateWhere: [err, changes, coll]
UpdateWhere(coll, where, updates) ==
    IF SetThrows(updates)
      THEN [err |-> "NaN", changes |-> 0, coll |-> coll]
    ELSE IF BuildWhere(where).err # "none"
      THEN [err |-> BuildWhere(where).err, changes |-> 0, coll |-> coll]
    ELSE IF BuildWhere(where).conds = << >>
      THEN [err |-> "WhereRequired", changes |-> 0, coll |-> coll]
    ELSE RunUpdate(coll, BuildWhere(where).conds, SetClauses(updates))

\* deleteWhere: [err, changes, coll]
DeleteWhere(coll, where) ==
    IF BuildWhere(where).err # "none"
      THEN [err |-> BuildWhere(where).err, changes |-> 0, coll |-> coll]
    ELSE IF BuildWhere(where).conds = << >>
      THEN [err |-> "WhereRequired", changes |-> 0, coll |-> coll]
    ELSE [err |-> "none",
          changes |-> Cardinality(Matching(coll, BuildWhere(where).conds)),
          coll |-> [id \in (DOMAIN coll) \ Matching(coll, BuildWhere(where).conds)
                      |-> coll[id]]]

\* SELECT COUNT(*) FROM t
Count(coll) == Cardinality(DOMAIN coll)

\* ------------------------------------------------------ transaction tasks
Tasks == {"t1", "t2"}
NoTask == "none"
IdleTask == [pc |-> "idle", out |-> "none", result |-> "none", parent |-> NoTask,
             nestedFail |-> FALSE, nestedCaught |-> FALSE]

\* A microtask is queued (the continuation after `await fn()` or after the
\* await of an inner transaction()): the host runs it before any timer.
MicrotaskPending ==
    \E t \in Tasks :
        \/ tasks[t].pc \in {"returned", "threw"}
        \/ /\ tasks[t].pc = "awaiting"
           /\ \E c \in Tasks : tasks[c].parent = t /\ tasks[c].pc \in {"resolved", "rejected"}

ClearTimeout(live, id) == {t \in live : t.id # id}

FreshTimer(live) ==
    CHOOSE i \in 1 .. (MaxTimers + 2) :
        /\ \A t \in live : t.id # i
        /\ \A k \in DOMAIN timers : timers[k] # i
        /\ \A j \in 1 .. (i - 1) :
              (\E t \in live : t.id = j) \/ (\E k \in DOMAIN timers : timers[k] = j)

SetTimeout(live, id, k) ==
    live \cup {[id |-> id, key |-> k, left |-> DEBOUNCE_MS]}

CancelExisting(k) ==
    IF MapHas(timers, k) THEN ClearTimeout(liveTimers, timers[k]) ELSE liveTimers

ScheduleSave_NoCancel(k, h) ==
    /\ pendingSaves' = MapSet(pendingSaves, k, h)
    /\ liveTimers' = SetTimeout(liveTimers, FreshTimer(liveTimers), k)
    /\ timers' = MapSet(timers, k, FreshTimer(liveTimers))

ScheduleSave_KeepTimer(k, h) ==
    /\ pendingSaves' = MapSet(pendingSaves, k, h)
    /\ liveTimers' = IF MapHas(timers, k) THEN liveTimers
                     ELSE SetTimeout(liveTimers, FreshTimer(liveTimers), k)
    /\ timers' = IF MapHas(timers, k) THEN timers
                 ELSE MapSet(timers, k, FreshTimer(liveTimers))

\* A scheduleSave that keeps the save function already pending.
ScheduleSave_KeepFirst(k, h) ==
    /\ pendingSaves' = IF MapHas(pendingSaves, k) THEN pendingSaves ELSE MapSet(pendingSaves, k, h)
    /\ liveTimers' = SetTimeout(CancelExisting(k), FreshTimer(CancelExisting(k)), k)
    /\ timers' = MapSet(timers, k, FreshTimer(CancelExisting(k)))

ScheduleSave(k, h) ==
    /\ pendingSaves' = MapSet(pendingSaves, k, h)
    /\ liveTimers' = SetTimeout(CancelExisting(k), FreshTimer(CancelExisting(k)), k)
    /\ timers' = MapSet(timers, k, FreshTimer(CancelExisting(k)))

\* load(Cls, key): the schema calls, then hydrate the row or insert the
\* defaults.  (A handle is loaded once: one load() call per proxy.)
Load(h, k) ==
    /\ hkey[h] = NoKey
    /\ IF SingletonGuard(ClassOf(h)) # "none"
         THEN /\ UNCHANGED <<db, committed, hkey, obj>>
              /\ res' = [op |-> "load", cls |-> ClassOf(h), err |-> SingletonGuard(ClassOf(h)),
                         handle |-> h, key |-> k, found |-> FALSE, foreign |-> FALSE]
         ELSE /\ hkey' = [hkey EXCEPT ![h] = k]
              /\ IF MapHas(db.single, k)
                   THEN /\ obj' = [obj EXCEPT ![h] = Hydrate(DefaultsOf(h), db.single[k])]
                        /\ DbApply(WithTable(db, MetaOf(h)))
                   ELSE /\ obj' = [obj EXCEPT ![h] = DefaultsOf(h)]
                        /\ DbApply([WithTable(db, MetaOf(h)) EXCEPT
                                      !.single = InsertRow(db.single, k, DefaultsOf(h))])
              /\ res' = [op |-> "load", cls |-> ClassOf(h), err |-> "none",
                         handle |-> h, key |-> k, found |-> MapHas(db.single, k),
                         foreign |-> (inTx /\ ~MapHas(db.single, k))]
    /\ ev' = NoEv
    /\ UNCHANGED <<inTx, timers, pendingSaves, liveTimers, sinceWrite, rescheduled>>
    /\ UNCHANGED txVars
    /\ UNCHANGED entVars
    /\ UNCHANGED regVars

ProxySet_WriteThrough(h, p, v) ==
    /\ hkey[h] # NoKey
    /\ Cardinality(liveTimers) < MaxTimers
    /\ obj' = [obj EXCEPT ![h][p] = v]
    /\ IF p \in DeclaredFields
         THEN /\ ScheduleSave(hkey[h], h)
              /\ DbApply([db EXCEPT !.single = SaveRow(db.single, hkey[h], obj'[h])])
              /\ sinceWrite' = [sinceWrite EXCEPT ![hkey[h]] = 0]
              /\ rescheduled' = [rescheduled EXCEPT ![hkey[h]] = MapHas(pendingSaves, hkey[h])]
              /\ ev' = [op |-> "other", n |-> [NoUpdates EXCEPT ![hkey[h]] = 1], re |-> FALSE, since |-> DEBOUNCE_MS]
         ELSE /\ ev' = NoEv
              /\ UNCHANGED <<db, committed, timers, pendingSaves, liveTimers,
                             sinceWrite, rescheduled>>
    /\ res' = SingletonRes(p \in DeclaredFields)
    /\ UNCHANGED <<inTx, hkey>>
    /\ UNCHANGED txVars
    /\ UNCHANGED entVars
    /\ UNCHANGED regVars

\* The set trap with a mutation: every write schedules a save.
ProxySet_AlwaysSchedule(h, p, v) ==
    /\ hkey[h] # NoKey
    /\ Cardinality(liveTimers) < MaxTimers
    /\ obj' = [obj EXCEPT ![h][p] = v]
    /\ ScheduleSave(hkey[h], h)
    /\ sinceWrite' = [sinceWrite EXCEPT ![hkey[h]] = 0]
    /\ rescheduled' = [rescheduled EXCEPT ![hkey[h]] = MapHas(pendingSaves, hkey[h])]
    /\ ev' = NoEv
    /\ res' = [op |-> "set", handle |-> h, prop |-> p, val |-> v, foreign |-> FALSE]
    /\ UNCHANGED <<db, committed, inTx, hkey>>
    /\ UNCHANGED txVars
    /\ UNCHANGED entVars
    /\ UNCHANGED regVars

ProxySet(h, p, v) ==
    /\ hkey[h] # NoKey
    /\ Cardinality(liveTimers) < MaxTimers
    /\ obj' = [obj EXCEPT ![h][p] = v]
    /\ IF p \in FieldProps(ClassOf(h))
         THEN /\ ScheduleSave(hkey[h], h)
              /\ sinceWrite' = [sinceWrite EXCEPT ![hkey[h]] = 0]
              /\ rescheduled' = [rescheduled EXCEPT ![hkey[h]] = MapHas(pendingSaves, hkey[h])]
              /\ ev' = NoEv
         ELSE /\ ev' = NoEv
              /\ UNCHANGED <<timers, pendingSaves, liveTimers, sinceWrite, rescheduled>>
    /\ res' = [op |-> "set", handle |-> h, prop |-> p, val |-> v, foreign |-> FALSE]
    /\ UNCHANGED <<db, committed, inTx, hkey>>
    /\ UNCHANGED txVars
    /\ UNCHANGED entVars
    /\ UNCHANGED regVars

\* serializeValue refuses NaN in a number field: saveRow throws before its
\* UPDATE is prepared.
NumberColumns == {"count", "legacy"}
SaveThrows(target) ==
    \E c \in (DOMAIN target) \cap FieldColumns \cap NumberColumns : SerializeThrows(target[c])

\* The callback handed to setTimeout in scheduleSave.  When fn() throws, the
\* pendingSaves.delete after it is not reached.
TimerFire(t) ==
    /\ t \in liveTimers
    /\ t.left = 0
    /\ ~MicrotaskPending
    /\ liveTimers' = liveTimers \ {t}
    /\ timers' = MapDelete(timers, t.key)
    /\ IF MapHas(pendingSaves, t.key) /\ SaveThrows(obj[pendingSaves[t.key]])
         THEN /\ UNCHANGED <<db, committed, pendingSaves>>
              /\ ev' = [op |-> "fireThrew", n |-> NoUpdates, re |-> rescheduled[t.key],
                        since |-> sinceWrite[t.key]]
         ELSE IF MapHas(pendingSaves, t.key)
         THEN /\ DbApply([db EXCEPT !.single =
                            SaveRow(db.single, t.key, obj[pendingSaves[t.key]])])
              /\ pendingSaves' = MapDelete(pendingSaves, t.key)
              /\ ev' = [op |-> "fire", n |-> [NoUpdates EXCEPT ![t.key] = 1], re |-> rescheduled[t.key],
                        since |-> sinceWrite[t.key]]
         ELSE /\ UNCHANGED <<db, committed, pendingSaves>>
              /\ ev' = [op |-> "fire", n |-> NoUpdates, re |-> FALSE, since |-> DEBOUNCE_MS]
    /\ rescheduled' = [rescheduled EXCEPT ![t.key] = FALSE]
    /\ sinceWrite' = [sinceWrite EXCEPT ![t.key] = DEBOUNCE_MS]
    /\ res' = SingletonRes(MapHas(pendingSaves', t.key) # MapHas(pendingSaves, t.key))
    /\ UNCHANGED <<inTx, hkey, obj>>
    /\ UNCHANGED txVars
    /\ UNCHANGED entVars
    /\ UNCHANGED regVars

RECURSIVE RunSaves(_, _)
RunSaves(single, ks) ==
    IF ks = {} THEN single
    ELSE LET k == CHOOSE x \in ks : TRUE
         IN  RunSaves(SaveRow(single, k, obj[pendingSaves[k]]), ks \ {k})

\* The orders in which pendingSaves.values() can yield the saves of the
\* keys ks.  Saves of different keys write different rows, so the order
\* shows only in which saves ran before one threw.
SaveOrders(ks) == {o \in [1 .. Cardinality(ks) -> ks] : Range(o) = ks}

\* flush's loop over the pending saves in the given order: the rows after
\* it, the keys whose save ran, and whether a save threw and ended the loop.
RECURSIVE RunSavesIn(_, _, _)
RunSavesIn(single, order, ran) ==
    IF order = << >> THEN [single |-> single, ran |-> ran, threw |-> FALSE]
    ELSE IF SaveThrows(obj[pendingSaves[Head(order)]])
      THEN [single |-> single, ran |-> ran, threw |-> TRUE]
    ELSE RunSavesIn(SaveRow(single, Head(order), obj[pendingSaves[Head(order)]]),
                    Tail(order), ran \cup {Head(order)})

Flush_KeepTimers ==
    /\ timers' = EmptyMap
    /\ liveTimers' = liveTimers
    /\ DbApply([db EXCEPT !.single = RunSaves(db.single, DOMAIN pendingSaves)])
    /\ pendingSaves' = EmptyMap
    /\ ev' = [op |-> "flush", n |-> [k \in Keys |-> IF MapHas(pendingSaves, k) THEN 1 ELSE 0], re |-> FALSE, since |-> DEBOUNCE_MS]
    /\ rescheduled' = [k \in Keys |-> FALSE]
    /\ sinceWrite' = [k \in Keys |-> DEBOUNCE_MS]
    /\ res' = SingletonRes(pendingSaves # EmptyMap)
    /\ UNCHANGED <<inTx, hkey, obj>>
    /\ UNCHANGED txVars
    /\ UNCHANGED entVars
    /\ UNCHANGED regVars

\* flush(): the timers are cleared first; a save that throws ends the loop
\* and the pendingSaves.clear() after it is not reached.
Flush ==
    /\ \E order \in SaveOrders(DOMAIN pendingSaves) :
      LET run == RunSavesIn(db.single, order, {}) IN
      /\ timers' = EmptyMap
      /\ liveTimers' = {t \in liveTimers : \A k \in DOMAIN timers : timers[k] # t.id}
      /\ DbApply([db EXCEPT !.single = run.single])
      /\ IF run.threw
           THEN /\ pendingSaves' = pendingSaves
                /\ ev' = [op |-> "flushThrew",
                          n |-> [k \in Keys |-> IF k \in run.ran THEN 1 ELSE 0],
                          re |-> FALSE, since |-> DEBOUNCE_MS]
                /\ UNCHANGED <<rescheduled, sinceWrite>>
           ELSE /\ pendingSaves' = EmptyMap
                /\ ev' = [op |-> "flush", n |-> [k \in Keys |-> IF MapHas(pendingSaves, k) THEN 1 ELSE 0], re |-> FALSE, since |-> DEBOUNCE_MS]
                /\ rescheduled' = [k \in Keys |-> FALSE]
                /\ sinceWrite' = [k \in Keys |-> DEBOUNCE_MS]
      /\ res' = SingletonRes(run.ran # {})
    /\ UNCHANGED <<inTx, hkey, obj>>
    /\ UNCHANGED txVars
    /\ UNCHANGED entVars
    /\ UNCHANGED regVars

\* TickMs of wall-clock time pass with no loader code running.  A due timer
\* may fire late, never early.
Tick ==
    /\ ~MicrotaskPending
    /\ liveTimers' = {[t EXCEPT !.left = Max(0, t.left - TickMs)] : t \in liveTimers}
    /\ sinceWrite' = [k \in Keys |-> Min(DEBOUNCE_MS, sinceWrite[k] + TickMs)]
    /\ ev' = NoEv
    /\ res' = SingletonRes(FALSE)
    /\ UNCHANGED <<db, committed, inTx, hkey, obj, timers, pendingSaves, rescheduled>>
    /\ UNCHANGED txVars
    /\ UNCHANGED entVars
    /\ UNCHANGED regVars

Init ==
    /\ db = EmptyStore
    /\ committed = EmptyStore
    /\ inTx = FALSE
    /\ hkey = [h \in AllHandles |-> NoKey]
    /\ obj = [h \in AllHandles |-> DefaultsOf(h)]
    /\ timers = EmptyMap
    /\ pendingSaves = EmptyMap
    /\ liveTimers = {}
    /\ sinceWrite = [k \in Keys |-> DEBOUNCE_MS]
    /\ rescheduled = [k \in Keys |-> FALSE]
    /\ ev = NoEv
    /\ tasks = [t \in Tasks |-> IdleTask]
    /\ txPre = EmptyStore
    /\ fnWrote = EmptyMap
    /\ res = [op |-> "init", foreign |-> FALSE]
    /\ now = 0
    /\ ents = [e \in Ents |-> NoEntity]
    /\ classMeta = InitialClassMeta
    /\ collectionMeta = InitialCollectionMeta
    /\ globalPendingFields = << >>
    /\ collPending = EmptyPending

\* ------------------------------------------------- collection calls (env)
\* Ids whose row a statement inserted, changed or removed.
Touched(before, after) ==
    {id \in Ids : (MapHas(before, id) # MapHas(after, id))
                  \/ (MapHas(before, id) /\ MapHas(after, id) /\ before[id] # after[id])}
Forget(m, ids) == [x \in (DOMAIN m) \ ids |-> m[x]]

singletonVars == <<hkey, obj, timers, pendingSaves, liveTimers, sinceWrite, rescheduled>>

\* loader.create(Cls, {id, balance}) called outside any transaction
\* callback; the caller keeps the returned entity in slot e (NoEnt: drops it).
CreateAs(e, id, v) ==
    LET r == InsertCollectionRow(db.coll, id, v) IN
    /\ DbApply([WithCollectionTable(db, CollMeta) EXCEPT !.coll = r.coll])
    /\ ents' = IF e = NoEnt \/ r.err # "none" THEN ents
               ELSE [ents EXCEPT ![e] = Bound(id, v)]
    /\ res' = [op |-> "create", err |-> r.err, id |-> id, val |-> v,
               foreign |-> (inTx /\ r.err = "none")]
    /\ fnWrote' = Forget(fnWrote, Touched(db.coll, r.coll))
    /\ ev' = NoEv
    /\ UNCHANGED <<inTx, tasks, txPre, now>>
    /\ UNCHANGED regVars
    /\ UNCHANGED singletonVars

Create(id, v) == CreateAs(NoEnt, id, v)

\* loader.updateWhere(Cls, where, updates) called outside any callback.
CallUpdateWhere(where, updates) ==
    LET r == UpdateWhere(db.coll, where, updates) IN
    /\ DbApply([WithCollectionTable(db, CollMeta) EXCEPT !.coll = r.coll])
    /\ res' = [op |-> "updateWhere", err |-> r.err, changes |-> r.changes,
               where |-> where, updates |-> updates, rows |-> Count(db.coll),
               touched |-> IF r.err # "none" THEN {}
                           ELSE {SetId(a, SetClauses(updates)) :
                                   a \in Matching(db.coll, BuildWhere(where).conds)},
               foreign |-> (inTx /\ r.err = "none")]
    /\ fnWrote' = Forget(fnWrote, Touched(db.coll, r.coll))
    /\ ev' = NoEv
    /\ UNCHANGED <<inTx, tasks, txPre>>
    /\ UNCHANGED singletonVars
    /\ UNCHANGED entVars
    /\ UNCHANGED regVars

\* loader.deleteWhere(Cls, where) called outside any callback.
CallDeleteWhere(where) ==
    LET r == DeleteWhere(db.coll, where) IN
    /\ DbApply([WithCollectionTable(db, CollMeta) EXCEPT !.coll = r.coll])
    /\ res' = [op |-> "deleteWhere", err |-> r.err, changes |-> r.changes,
               where |-> where, rows |-> Count(db.coll),
               foreign |-> (inTx /\ r.err = "none")]
    /\ fnWrote' = Forget(fnWrote, Touched(db.coll, r.coll))
    /\ ev' = NoEv
    /\ UNCHANGED <<inTx, tasks, txPre>>
    /\ UNCHANGED singletonVars
    /\ UNCHANGED entVars
    /\ UNCHANGED regVars

\* The filter and update objects the callers pass.
Undef(p) == [def |-> FALSE, prop |-> p, val |-> 0]
Eq(p, v) == [def |-> TRUE, prop |-> p, val |-> v]
WhereInputs ==
    {[given |-> FALSE, entries |-> << >>],
     [given |-> TRUE, entries |-> << >>],
     [given |-> TRUE, entries |-> <<Undef("balance")>>],
     [given |-> TRUE, entries |-> <<Undef("id"), Undef("bogus")>>],
     [given |-> TRUE, entries |-> <<Eq("bogus", 1)>>]}
    \cup {[given |-> TRUE, entries |-> <<Eq("id", i)>>] : i \in Ids}
    \cup {[given |-> TRUE, entries |-> <<Eq("balance", v)>>] : v \in Numbers}
    \cup {[given |-> TRUE, entries |-> <<Undef("id"), Eq("balance", v)>>] : v \in Numbers}
UpdateInputs ==
    {<< >>, <<Undef("balance")>>, <<Eq("bogus", 1)>>, <<Eq("balance", NaN)>>,
     <<Eq("balance", 0), Eq("balance", 1)>>}
    \cup {<<Eq("balance", v)>> : v \in Numbers}
    \cup {<<Eq("id", i)>> : i \in Ids}

NextBulk ==
    \/ \E id \in Ids, v \in Numbers : Create(id, v)
    \/ \E w \in WhereInputs, u \in UpdateInputs : CallUpdateWhere(w, u)
    \/ \E w \in WhereInputs : CallDeleteWhere(w)

SpecBulk == Init /\ [][NextBulk]_vars

\* --------------------------------------------------- collection entities
\* INSERT ... ON CONFLICT(id) DO UPDATE SET updated_at = datetime('now'),
\* balance = excluded.balance: [err, coll].
UpsertCollectionRow_Replace(coll, id, v) ==
    IF SerializeThrows(v)
      THEN [err |-> "NaN", coll |-> coll]
      ELSE [err |-> "none",
            coll |-> MapSet(coll, id, SetCell([created_at |-> now, updated_at |-> now],
                                              "balance", v))]

UpsertCollectionRow(coll, id, v) ==
    IF SerializeThrows(v)
      THEN [err |-> "NaN", coll |-> coll]
    ELSE IF MapHas(coll, id)
      THEN [err |-> "none",
            coll |-> [coll EXCEPT ![id] = SetCell([@ EXCEPT !.updated_at = now],
                                                  "balance", v)]]
    ELSE InsertCollectionRow(coll, id, v)

\* UPDATE t SET updated_at = datetime('now'), balance = ? WHERE id = ?, the
\* id and the fields read from the instance when save() is called.
SaveCollectionRow_Reinsert(coll, instance) ==
    IF SerializeThrows(instance.balance)
      THEN [err |-> "NaN", changes |-> 0, coll |-> coll]
    ELSE IF MapHas(coll, instance.id)
      THEN [err |-> "none", changes |-> 1,
            coll |-> [coll EXCEPT ![instance.id] =
                        SetCell([created_at |-> now, updated_at |-> now],
                                "balance", instance.balance)]]
    ELSE [err |-> "none", changes |-> 0, coll |-> coll]

SaveCollectionRow(coll, instance) ==
    IF SerializeThrows(instance.balance)
      THEN [err |-> "NaN", changes |-> 0, coll |-> coll]
    ELSE IF MapHas(coll, instance.id)
      THEN [err |-> "none", changes |-> 1,
            coll |-> [coll EXCEPT ![instance.id] =
                        SetCell([@ EXCEPT !.updated_at = now], "balance", instance.balance)]]
    ELSE [err |-> "none", changes |-> 0, coll |-> coll]

\* DELETE FROM t WHERE id = ?, the id read from the instance when delete()
\* is called.
DeleteCollectionRow(coll, instance) ==
    IF MapHas(coll, instance.id) THEN MapDelete(coll, instance.id) ELSE coll

\* new Cls() filled from a row: the id, then every field whose column is
\* not NULL; a NULL column leaves the class default.
PopulateCollectionInstance(id, row) ==
    [live |-> TRUE, id |-> id, origin |-> id,
     balance |-> IF MapHas(row, "balance") THEN row.balance ELSE CollDefaults.balance]

\* What a collection call leaves of the other variables.
CollectionFrame ==
    /\ fnWrote' = Forget(fnWrote, Touched(db.coll, db'.coll))
    /\ ev' = NoEv
    /\ UNCHANGED <<inTx, tasks, txPre, now>>
    /\ UNCHANGED regVars
    /\ UNCHANGED singletonVars

\* loader.upsert(Cls, {id, balance})
UpsertAs(e, id, v) ==
    LET r == UpsertCollectionRow(db.coll, id, v) IN
    /\ DbApply([WithCollectionTable(db, CollMeta) EXCEPT !.coll = r.coll])
    /\ ents' = IF r.err # "none" THEN ents ELSE [ents EXCEPT ![e] = Bound(id, v)]
    /\ res' = [op |-> "upsert", err |-> r.err, id |-> id, val |-> v,
               foreign |-> (inTx /\ r.err = "none")]
    /\ CollectionFrame

\* loader.get(Cls, id)
GetAs(e, id) ==
    /\ DbApply(WithCollectionTable(db, CollMeta))
    /\ ents' = IF MapHas(db.coll, id)
                 THEN [ents EXCEPT ![e] = PopulateCollectionInstance(id, db.coll[id])]
                 ELSE ents
    /\ res' = [op |-> "get", err |-> "none", id |-> id, found |-> MapHas(db.coll, id),
               ent |-> IF MapHas(db.coll, id)
                         THEN PopulateCollectionInstance(id, db.coll[id]) ELSE NoEntity,
               foreign |-> FALSE]
    /\ CollectionFrame

\* entity.<prop> = v: a plain property write on the instance.
EntAssign_AutoSave(e, prop, v) ==
    /\ ents[e].live
    /\ ents' = [ents EXCEPT ![e][prop] = v]
    /\ DbApply([db EXCEPT !.coll = SaveCollectionRow(db.coll, ents'[e]).coll])
    /\ res' = [op |-> "assign", err |-> "none", ent |-> e, foreign |-> FALSE]
    /\ CollectionFrame

EntAssign(e, prop, v) ==
    /\ ents[e].live
    /\ ents' = [ents EXCEPT ![e][prop] = v]
    /\ res' = [op |-> "assign", err |-> "none", ent |-> e, foreign |-> FALSE]
    /\ UNCHANGED <<db, committed>>
    /\ CollectionFrame

\* entity.save(): the bound closure runs saveCollectionRow(meta, instance).
EntSave(e) ==
    LET r == SaveCollectionRow(db.coll, ents[e]) IN
    /\ ents[e].live
    /\ DbApply([db EXCEPT !.coll = r.coll])
    /\ res' = [op |-> "save", err |-> r.err, ent |-> e, changes |-> r.changes,
               touched |-> IF r.changes = 1 THEN {ents[e].id} ELSE {},
               foreign |-> (inTx /\ r.changes = 1)]
    /\ UNCHANGED ents
    /\ CollectionFrame

\* entity.delete(): the bound closure runs deleteCollectionRow(meta, instance).
EntDelete(e) ==
    /\ ents[e].live
    /\ DbApply([db EXCEPT !.coll = DeleteCollectionRow(db.coll, ents[e])])
    /\ res' = [op |-> "delete", err |-> "none", ent |-> e,
               foreign |-> (inTx /\ MapHas(db.coll, ents[e].id))]
    /\ UNCHANGED ents
    /\ CollectionFrame

\* modify with a mutation: fn is applied and the entity returned without
\* the save.
Modify_NoSave(e, id, v) ==
    LET entity == [PopulateCollectionInstance(id, db.coll[id]) EXCEPT !.balance = v]
    IN
    /\ DbApply(WithCollectionTable(db, CollMeta))
    /\ IF MapHas(db.coll, id)
         THEN /\ ents' = [ents EXCEPT ![e] = entity]
              /\ res' = [op |-> "modify", err |-> "none", id |-> id, touched |-> {},
                         ent |-> e, called |-> TRUE, foreign |-> FALSE]
         ELSE /\ ents' = ents
              /\ res' = [op |-> "modify", err |-> "NotFound", id |-> id, touched |-> {},
                         ent |-> e, called |-> FALSE, foreign |-> FALSE]
    /\ CollectionFrame

\* loader.modify(Cls, id, fn) with fn = (a) => { a.balance = v }: get, fn and
\* the statement of save() run in one piece.  `called` is history: fn ran.
Modify(e, id, v) ==
    LET entity == [PopulateCollectionInstance(id, db.coll[id]) EXCEPT !.balance = v]
        r == SaveCollectionRow(db.coll, entity)
    IN
    /\ IF MapHas(db.coll, id)
         THEN /\ DbApply([WithCollectionTable(db, CollMeta) EXCEPT !.coll = r.coll])
              /\ ents' = [ents EXCEPT ![e] = entity]
              /\ res' = [op |-> "modify", err |-> r.err, id |-> id, touched |-> {id},
                         ent |-> e, called |-> TRUE, foreign |-> inTx]
         ELSE /\ DbApply(WithCollectionTable(db, CollMeta))
              /\ ents' = ents
              /\ res' = [op |-> "modify", err |-> "NotFound", id |-> id, touched |-> {},
                         ent |-> e, called |-> FALSE, foreign |-> FALSE]
    /\ CollectionFrame

\* A second of the store's clock passes.
Advance ==
    /\ now < MaxNow
    /\ now' = now + 1
    /\ res' = [op |-> "advance", err |-> "none", foreign |-> FALSE]
    /\ ev' = NoEv
    /\ UNCHANGED <<db, committed, inTx, tasks, txPre, fnWrote, ents>>
    /\ UNCHANGED regVars
    /\ UNCHANGED singletonVars

NextEntity ==
    \/ Advance
    \/ \E e \in Ents, id \in Ids, v \in Values : CreateAs(e, id, v)
    \/ \E e \in Ents, id \in Ids, v \in Values : UpsertAs(e, id, v)
    \/ \E e \in Ents, id \in Ids : GetAs(e, id)
    \/ \E e \in Ents, v \in Values : EntAssign(e, "balance", v)
    \/ \E e \in Ents, id \in Ids : EntAssign(e, "id", id)
    \/ \E e \in Ents : EntSave(e)
    \/ \E e \in Ents : EntDelete(e)
    \/ \E e \in Ents, id \in Ids, v \in {1, Null} : Modify(e, id, v)
    \/ \E id \in Ids :
          CallUpdateWhere([given |-> TRUE, entries |-> <<Eq("id", id)>>], <<Eq("balance", 0)>>)
    \/ \E id \in Ids : \E to \in Ids \ {id} :
          CallUpdateWhere([given |-> TRUE, entries |-> <<Eq("id", id)>>], <<Eq("id", to)>>)

SpecEntity == Init /\ [][NextEntity]_vars

\* The bulk calls with the clock moving between them.
WhereById(id) == [given |-> TRUE, entries |-> <<Eq("id", id)>>]
WhereByBalance(v) == [given |-> TRUE, entries |-> <<Undef("id"), Eq("balance", v)>>]
ClockUpdate(n) ==
    CASE n = 1 -> << >>
      [] n = 2 -> <<Eq("bogus", 1)>>
      [] n = 3 -> <<Eq("bogus", 1), Eq("balance", 1)>>
      [] n = 4 -> <<Eq("balance", 0)>>
      [] n = 5 -> <<Undef("balance"), Eq("id", "a2")>>

NextBulkClock ==
    \/ Advance
    \/ \E id \in Ids, v \in Numbers : Create(id, v)
    \/ \E id \in Ids, n \in 1 .. 5 : CallUpdateWhere(WhereById(id), ClockUpdate(n))
    \/ \E v \in Numbers, n \in 1 .. 5 : CallUpdateWhere(WhereByBalance(v), ClockUpdate(n))
    \/ \E id \in Ids : CallDeleteWhere(WhereById(id))

SpecBulkClock == Init /\ [][NextBulkClock]_vars

\* ------------------------------------------------ query builder (query.ts)
\* A filter entry is a raw value (op "raw", treated as eq), a condition
\* object {op, value} or `undefined` (def = FALSE).  Arrays are sequences;
\* strings matched with LIKE are sequences of characters.
Raw(p, v) == [def |-> TRUE, op |-> "raw", prop |-> p, val |-> v]
Cond(p, op, v) == [def |-> TRUE, op |-> op, prop |-> p, val |-> v]
NoValue(p) == [def |-> FALSE, op |-> "raw", prop |-> p, val |-> 0]
Alphabet == {"a", "%", "_", "\\"}
Strs == UNION {[1 .. n -> Alphabet] : n \in 0 .. MaxStr}

\* getColumn for TxAccount: the id, the declared field and the two
\* timestamps have a column; anything else throws.
QueryProps == {"id", "balance", "created_at", "updated_at"}
NoColumn == "?"
GetColumn_AnyProperty(property) == property

GetColumn(property) == IF property \in QueryProps THEN property ELSE NoColumn

\* escapeLike: value.replace(/[%_]/g, c => "\\" + c)
RECURSIVE EscapeLike(_)
EscapeLike(value) ==
    IF value = << >> THEN << >>
    ELSE (IF Head(value) \in {"%", "_"} THEN <<"\\", Head(value)>> ELSE <<Head(value)>>)
         \o EscapeLike(Tail(value))

\* One SQL fragment: the column, the relation and the number of "?" in it.
Fragment(column, rel, n) == [column |-> column, n |-> n, rel |-> rel]

BuildOperatorCondition_EmptyList(column, op, value) ==
    CASE op = "eq" -> [sql |-> Fragment(column, "= ?", 1), params |-> <<value>>]
      [] op = "in" -> [sql |-> Fragment(column, "IN", Len(value)), params |-> value]
      [] op = "notIn" -> [sql |-> Fragment(column, "NOT IN", Len(value)), params |-> value]
      [] op = "isNull" -> [sql |-> Fragment(column, "IS NULL", 0), params |-> << >>]
      [] op = "contains" ->
            [sql |-> Fragment(column, "LIKE ? ESCAPE", 1),
             params |-> << <<"%">> \o EscapeLike(value) \o <<"%">> >>]
      [] op = "startsWith" ->
            [sql |-> Fragment(column, "LIKE ? ESCAPE", 1),
             params |-> << EscapeLike(value) \o <<"%">> >>]
      [] op = "endsWith" ->
            [sql |-> Fragment(column, "LIKE ? ESCAPE", 1),
             params |-> << <<"%">> \o EscapeLike(value) >>]

\* buildOperatorCondition: [sql, params].  An empty array gives the constant
\* fragments "0 = 1" and "1 = 1", which name no column.
BuildOperatorCondition(column, op, value) ==
    CASE op = "eq" -> [sql |-> Fragment(column, "= ?", 1), params |-> <<value>>]
      [] op = "in" ->
            IF Len(value) = 0
              THEN [sql |-> Fragment("", "0 = 1", 0), params |-> << >>]
              ELSE [sql |-> Fragment(column, "IN", Len(value)), params |-> value]
      [] op = "notIn" ->
            IF Len(value) = 0
              THEN [sql |-> Fragment("", "1 = 1", 0), params |-> << >>]
              ELSE [sql |-> Fragment(column, "NOT IN", Len(value)), params |-> value]
      [] op = "isNull" -> [sql |-> Fragment(column, "IS NULL", 0), params |-> << >>]
      [] op = "contains" ->
            [sql |-> Fragment(column, "LIKE ? ESCAPE", 1),
             params |-> << <<"%">> \o EscapeLike(value) \o <<"%">> >>]
      [] op = "startsWith" ->
            [sql |-> Fragment(column, "LIKE ? ESCAPE", 1),
             params |-> << EscapeLike(value) \o <<"%">> >>]
      [] op = "endsWith" ->
            [sql |-> Fragment(column, "LIKE ? ESCAPE", 1),
             params |-> << <<"%">> \o EscapeLike(value) >>]

\* The loop of buildWhere over Object.entries(where): undefined values are
\* skipped before the column is looked up; an unknown property throws.
RECURSIVE BuildConditions_KeepUndefined(_)
BuildConditions_KeepUndefined(entries) ==
    IF entries = << >> THEN [err |-> "none", sql |-> << >>, params |-> << >>]
    ELSE LET e == Head(entries)
             rest == BuildConditions_KeepUndefined(Tail(entries))
             c == BuildOperatorCondition(GetColumn(e.prop),
                                         IF ~e.def THEN "isNull"
                                         ELSE IF e.op = "raw" THEN "eq" ELSE e.op, e.val)
         IN  IF GetColumn(e.prop) = NoColumn \/ rest.err # "none"
               THEN [err |-> "UnknownProperty", sql |-> << >>, params |-> << >>]
             ELSE [err |-> "none", sql |-> <<c.sql>> \o rest.sql,
                   params |-> c.params \o rest.params]

RECURSIVE BuildConditions(_)
BuildConditions(entries) ==
    IF entries = << >> THEN [err |-> "none", sql |-> << >>, params |-> << >>]
    ELSE LET e == Head(entries)
             rest == BuildConditions(Tail(entries))
             c == BuildOperatorCondition(GetColumn(e.prop),
                                         IF e.op = "raw" THEN "eq" ELSE e.op, e.val)
         IN  IF ~e.def THEN rest
             ELSE IF GetColumn(e.prop) = NoColumn \/ rest.err # "none"
               THEN [err |-> "UnknownProperty", sql |-> << >>, params |-> << >>]
             ELSE [err |-> "none", sql |-> <<c.sql>> \o rest.sql,
                   params |-> c.params \o rest.params]

\* buildWhere: [err, sql, params]; sql is the sequence of fragments that
\* " AND " joins, the empty sequence standing for the empty string.
BuildWhereClause(where) ==
    IF ~where.given \/ Len(where.entries) = 0
      THEN [err |-> "none", sql |-> << >>, params |-> << >>]
      ELSE BuildConditions(where.entries)

\* SQLite's LIKE with ESCAPE '\': % matches any run of characters, _ any one
\* character, the escape character makes the next pattern character
\* literal, and a pattern ending in the escape character matches nothing.
RECURSIVE Like(_, _)
Like(pattern, str) ==
    IF pattern = << >> THEN str = << >>
    ELSE IF Head(pattern) = "%"
      THEN \E k \in 0 .. Len(str) : Like(Tail(pattern), SubSeq(str, k + 1, Len(str)))
    ELSE IF Head(pattern) = "_"
      THEN str # << >> /\ Like(Tail(pattern), Tail(str))
    ELSE IF Head(pattern) = "\\"
      THEN /\ Len(pattern) >= 2
           /\ str # << >> /\ Head(str) = pattern[2]
           /\ Like(SubSeq(pattern, 3, Len(pattern)), Tail(str))
    ELSE str # << >> /\ Head(str) = Head(pattern) /\ Like(Tail(pattern), Tail(str))

\* What SQLite makes of one fragment for a row: isNull says whether the
\* row's column is NULL, cell is its value otherwise.
EvalFragment(f, params, isNull, cell) ==
    CASE f.rel = "0 = 1" -> FALSE
      [] f.rel = "1 = 1" -> TRUE
      [] f.rel = "IS NULL" -> isNull
      [] f.rel = "= ?" -> ~isNull /\ cell = params[1]
      [] f.rel = "IN" -> ~isNull /\ \E i \in 1 .. f.n : params[i] = cell
      [] f.rel = "NOT IN" -> ~isNull /\ \A i \in 1 .. f.n : params[i] # cell
      [] f.rel = "LIKE ? ESCAPE" -> ~isNull /\ Like(params[1], cell)

\* WHERE f1 AND f2 ...: each fragment takes its own "?" from the front of
\* the parameter list.
RECURSIVE EvalWhere(_, _, _, _)
EvalWhere(sql, params, id, row) ==
    IF sql = << >> THEN TRUE
    ELSE LET f == Head(sql)
             isNull == f.column \notin {"", "id"} /\ ~MapHas(row, f.column)
             cell == IF f.column = "id" THEN id
                     ELSE IF isNull \/ f.column = "" THEN Null ELSE row[f.column]
         IN  /\ EvalFragment(f, SubSeq(params, 1, f.n), isNull, cell)
             /\ EvalWhere(Tail(sql), SubSeq(params, f.n + 1, Len(params)), id, row)

\* The message of getColumn's error lists the id property, the declared
\* fields and the two timestamps.
KnownList(meta) == <<"id">> \o meta.fields \o <<"created_at", "updated_at">>

\* buildOrderBy: [err, sql], sql being the "<column> <DIR>" clauses that
\* ", " joins.  An order specification is a sequence of <<property,
\* direction>> in the object's key order, the direction "undefined" standing
\* for an undefined value; undefined and {} are both the empty sequence.
Upper(direction) == IF direction = "asc" THEN "ASC" ELSE "DESC"
RECURSIVE BuildOrderBy(_)
BuildOrderBy(orderBy) ==
    IF orderBy = << >> THEN [err |-> "none", sql |-> << >>]
    ELSE LET e == Head(orderBy)
             rest == BuildOrderBy(Tail(orderBy))
         IN  IF e[2] = "undefined" THEN rest
             ELSE IF GetColumn(e[1]) = NoColumn
               THEN [err |-> "UnknownProperty", sql |-> << >>]
             ELSE IF e[2] \notin {"asc", "desc"}
               THEN [err |-> "InvalidDirection", sql |-> << >>]
             ELSE IF rest.err # "none" THEN rest
             ELSE [err |-> "none", sql |-> << <<GetColumn(e[1]), Upper(e[2])>> >> \o rest.sql]

\* The statement find() assembles: its clauses in order and the bind
\* parameters.  limit and offset are << >> when undefined, <<n>> otherwise.
NoStatement == [clauses |-> << >>, params |-> << >>]
FindStatement(w, o, limit, offset) ==
    [clauses |-> <<"SELECT">>
                 \o (IF w.sql # << >> THEN <<"WHERE">> ELSE << >>)
                 \o (IF o.sql # << >> THEN <<"ORDER BY">> ELSE << >>)
                 \o (IF limit # << >> THEN <<"LIMIT ?">> ELSE << >>)
                 \o (IF offset # << >> THEN <<"OFFSET ?">> ELSE << >>),
     params |-> w.params \o limit \o offset]

\* db.prepare(sql): SQLite's grammar has OFFSET only after LIMIT.
Prepares(clauses) ==
    \A i \in 1 .. Len(clauses) :
        clauses[i] = "OFFSET ?" => (i > 1 /\ clauses[i - 1] = "LIMIT ?")

\* How many rows LIMIT and OFFSET leave of n selected rows.
Window(n, limit, offset) ==
    LET skipped == IF offset = << >> THEN n ELSE Max(0, n - offset[1])
    IN  IF limit = << >> THEN skipped ELSE Min(limit[1], skipped)

\* loader.find(Cls, {where, orderBy, limit, offset}).  The table is ensured
\* first; buildWhere and buildOrderBy may throw; then the statement is
\* prepared and run.  ids are the rows the predicate selects and returned is
\* the number of them the call returns; stmt is the statement that ran.
FindWith(where, orderBy, limit, offset) ==
    LET w == BuildWhereClause(where)
        o == BuildOrderBy(orderBy)
        st == FindStatement(w, o, limit, offset)
        err == IF w.err # "none" THEN w.err
               ELSE IF o.err # "none" THEN o.err
               ELSE IF ~Prepares(st.clauses) THEN "SyntaxError" ELSE "none"
        sel == {id \in DOMAIN db.coll : EvalWhere(w.sql, w.params, id, db.coll[id])}
    IN
    /\ DbApply(WithCollectionTable(db, CollMeta))
    /\ res' = [op |-> "find", err |-> err, where |-> where, orderBy |-> orderBy,
               limit |-> limit, offset |-> offset, known |-> KnownList(CollMeta),
               sql |-> w.sql, params |-> w.params, order |-> o.sql,
               stmt |-> IF err = "none" THEN st ELSE NoStatement,
               asked |-> IF err \in {"none", "SyntaxError"} THEN st ELSE NoStatement,
               ids |-> IF err # "none" THEN {} ELSE sel,
               returned |-> IF err # "none" THEN 0
                            ELSE Window(Cardinality(sel), limit, offset),
               foreign |-> FALSE]
    /\ ents' = ents
    /\ CollectionFrame

\* loader.find(Cls, {where})
Find(where) == FindWith(where, << >>, << >>, << >>)

\* loader.count(Cls, where): SELECT COUNT(*) FROM t [WHERE ...]
CallCount(where) ==
    LET w == BuildWhereClause(where)
        sel == {id \in DOMAIN db.coll : EvalWhere(w.sql, w.params, id, db.coll[id])}
    IN
    /\ DbApply(WithCollectionTable(db, CollMeta))
    /\ res' = [op |-> "count", err |-> w.err, where |-> where, known |-> KnownList(CollMeta),
               stmt |-> IF w.err = "none" THEN FindStatement(w, BuildOrderBy(<< >>), << >>, << >>)
                        ELSE NoStatement,
               count |-> IF w.err # "none" THEN 0 ELSE Cardinality(sel),
               foreign |-> FALSE]
    /\ ents' = ents
    /\ CollectionFrame

\* find() with {name: {op: kind, value}} over a row whose text column holds
\* str, the inputs being those drawn in res: whether the row is returned.
FindLike ==
    LET c == BuildOperatorCondition("name", res.kind, res.value) IN
    /\ res.op = "input"
    /\ res' = [op |-> "findLike", err |-> "none", kind |-> res.kind, value |-> res.value,
               str |-> res.str, pattern |-> c.params[1],
               matched |-> EvalFragment(c.sql, c.params, FALSE, res.str),
               foreign |-> FALSE]
    /\ UNCHANGED <<db, committed, ents>>
    /\ CollectionFrame

\* The filters callers pass to find().
Arrays == {<< >>, <<0>>, <<0, 1>>}
IdArrays == {<< >>, <<"a1">>}
OneCondition ==
    {Cond(p, op, a) : p \in QueryProps \ {"id"}, op \in {"in", "notIn"}, a \in Arrays}
    \cup {Cond("id", op, a) : op \in {"in", "notIn"}, a \in IdArrays}
    \cup {Raw("balance", v) : v \in Numbers}
    \cup {Raw("id", "a1"), Cond("balance", "isNull", 0), NoValue("balance"),
          NoValue("bogus"), Raw("bogus", 1)}
TwoConditions ==
    {<<Raw("balance", 1), Cond("created_at", "in", <<0, 1>>)>>,
     <<Cond("created_at", "in", <<0, 1>>), Raw("balance", 1)>>,
     <<Cond("balance", "notIn", <<0>>), NoValue("id"), Raw("id", "a1")>>,
     <<NoValue("id"), NoValue("balance")>>,
     <<Cond("balance", "in", << >>), Raw("id", "a1")>>,
     <<Raw("id", "a2"), Cond("balance", "notIn", << >>)>>}
FindInputs ==
    {[given |-> FALSE, entries |-> << >>], [given |-> TRUE, entries |-> << >>]}
    \cup {[given |-> TRUE, entries |-> <<c>>] : c \in OneCondition}
    \cup {[given |-> TRUE, entries |-> cs] : cs \in TwoConditions}

NextQuery ==
    \/ \E id \in Ids, v \in Values : Create(id, v)
    \/ \E w \in FindInputs : Find(w)

SpecQuery == Init /\ [][NextQuery]_vars

\* find() with every option, count() and the bulk calls, over filters and
\* order specifications that name known and unknown properties.
OneWhere(c) == [given |-> TRUE, entries |-> <<c>>]
FindWheres ==
    {[given |-> FALSE, entries |-> << >>], OneWhere(Raw("balance", 1)),
     OneWhere(Cond("balance", "in", <<0, 1>>)), OneWhere(Raw("bogus", 1)),
     OneWhere(NoValue("bogus"))}
Orders ==
    {<< >>, <<<<"balance", "asc">>>>, <<<<"bogus", "undefined">>, <<"id", "desc">>>>,
     <<<<"bogus", "asc">>>>, <<<<"balance", "up">>>>}
Limits == {<< >>, <<1>>}
Offsets == {<< >>, <<1>>}
OldWhere(p, v) == [given |-> TRUE, entries |-> <<Eq(p, v)>>]

NextFind ==
    \/ \E id \in Ids, v \in Numbers : Create(id, v)
    \/ \E w \in FindWheres, o \in Orders, l \in Limits, f \in Offsets : FindWith(w, o, l, f)
    \/ \E w \in FindWheres : CallCount(w)
    \/ \E p \in {"balance", "bogus"} : CallUpdateWhere(OldWhere(p, 1), <<Eq("balance", 0)>>)
    \/ \E p \in {"balance", "bogus"} : CallDeleteWhere(OldWhere(p, 1))

SpecFind == Init /\ [][NextFind]_vars

\* ------------------------------------------- serialization (serialization.ts)
\* A JavaScript value is <<tag, payload>>: a string, a finite number, NaN,
\* an infinity, a boolean, a Date of so many milliseconds, an invalid Date,
\* null or undefined.
JsNull == <<"null", 0>>
JsUndefined == <<"undefined", 0>>
JsNaN == <<"nan", 0>>
JsInfinity == <<"infinity", 0>>
JsInvalidDate == <<"invalidDate", 0>>
JsString(s) == <<"string", s>>
JsNumber(n) == <<"number", n>>
JsBoolean(b) == <<"boolean", b>>
JsDate(ms) == <<"date", ms>>
FieldTypes == {"string", "number", "boolean", "date"}
Millis == 0 .. 3
Finite == (0 - 2) .. 3

\* Date.prototype.toISOString and the Date constructor's parse of it.
ToISOString(ms) ==
    CASE ms = 0 -> "1970-01-01T00:00:00.000Z"
      [] ms = 1 -> "1970-01-01T00:00:00.001Z"
      [] ms = 2 -> "1970-01-01T00:00:00.002Z"
      [] ms = 3 -> "1970-01-01T00:00:00.003Z"
ParseDate(text) ==
    IF \E ms \in Millis : ToISOString(ms) = text
      THEN JsDate(CHOOSE ms \in Millis : ToISOString(ms) = text)
      ELSE JsInvalidDate

\* String(n) and Number(text) for the numbers of the model.
NumberText(n) ==
    CASE n = 0 - 2 -> "-2" [] n = 0 - 1 -> "-1" [] n = 0 -> "0"
      [] n = 1 -> "1" [] n = 2 -> "2" [] n = 3 -> "3"
TextNumber(text) ==
    IF text = "" THEN JsNumber(0)
    ELSE IF \E n \in Finite : NumberText(n) = text
      THEN JsNumber(CHOOSE n \in Finite : NumberText(n) = text)
    ELSE JsNaN
Texts == {"", "x", "1", "true", "1970-01-01T00:00:00.001Z", "1970-01-01"}

\* String(value)
StringOf(value) ==
    CASE value[1] = "string" -> value[2]
      [] value[1] = "number" -> NumberText(value[2])
      [] value[1] = "boolean" -> IF value[2] THEN "true" ELSE "false"
      [] value[1] = "nan" -> "NaN"
      [] value[1] = "infinity" -> "Infinity"
      [] OTHER -> "[object]"

\* serializeValue(value, type): [err, out]
SerializeValue(value, type) ==
    IF value[1] \in {"null", "undefined"} THEN [err |-> "none", out |-> JsNull]
    ELSE CASE type = "string" -> [err |-> "none", out |-> JsString(StringOf(value))]
           [] type = "number" ->
                IF value[1] = "nan" THEN [err |-> "NaN", out |-> JsNull]
                ELSE IF value[1] = "infinity" THEN [err |-> "Infinity", out |-> JsNull]
                ELSE [err |-> "none", out |-> value]
           [] type = "boolean" ->
                [err |-> "none",
                 out |-> JsNumber(IF \/ value[1] = "boolean" /\ ~value[2]
                                     \/ value[1] = "number" /\ value[2] = 0
                                     \/ value[1] = "string" /\ value[2] = ""
                                     \/ value[1] = "nan"
                                    THEN 0 ELSE 1)]
           [] type = "date" ->
                IF value[1] = "date"
                  THEN [err |-> "none", out |-> JsString(ToISOString(value[2]))]
                  ELSE [err |-> "RangeError", out |-> JsNull]

DeserializeValue_Truthy(value, type) ==
    IF value[1] \in {"null", "undefined"} THEN JsNull
    ELSE CASE type = "string" -> JsString(StringOf(value))
           [] type = "number" -> IF value[1] = "string" THEN TextNumber(value[2]) ELSE value
           [] type = "boolean" ->
                JsBoolean(~(\/ value[1] = "number" /\ value[2] = 0
                            \/ value[1] = "string" /\ value[2] = ""
                            \/ value[1] = "boolean" /\ ~value[2]))
           [] type = "date" ->
                IF value[1] = "string" THEN ParseDate(value[2]) ELSE JsInvalidDate

\* deserializeValue(value, type) for what a row can hold: text, a number,
\* NULL (and true, undefined)
DeserializeValue(value, type) ==
    IF value[1] \in {"null", "undefined"} THEN JsNull
    ELSE CASE type = "string" -> JsString(StringOf(value))
           [] type = "number" ->
                IF value[1] = "string" THEN TextNumber(value[2])
                ELSE IF value[1] = "boolean" THEN JsNumber(IF value[2] THEN 1 ELSE 0)
                ELSE value
           [] type = "boolean" ->
                JsBoolean(\/ value[1] = "number" /\ value[2] = 1
                          \/ value[1] = "boolean" /\ value[2])
           [] type = "date" ->
                IF value[1] = "string" THEN ParseDate(value[2])
                ELSE IF value[1] = "number" /\ value[2] \in Millis THEN JsDate(value[2])
                ELSE JsInvalidDate

\* The values of a field type, the ones serializeValue refuses included.
ValuesOf(type) ==
    {JsNull, JsUndefined}
    \cup CASE type = "string" -> {JsString(t) : t \in Texts}
           [] type = "number" -> {JsNumber(n) : n \in Finite} \cup {JsNaN, JsInfinity}
           [] type = "boolean" -> {JsBoolean(b) : b \in BOOLEAN}
           [] type = "date" -> {JsDate(ms) : ms \in Millis} \cup {JsInvalidDate}
Representable(value) ==
    value[1] \notin {"null", "undefined", "nan", "infinity", "invalidDate"}

\* What a column read can hand to deserializeValue.
StoredValues ==
    {JsNull, JsUndefined, JsBoolean(TRUE), JsBoolean(FALSE)}
    \cup {JsNumber(n) : n \in Finite} \cup {JsString(t) : t \in Texts}

\* Everything but res and the entities held as the loader starts.
InitRest ==
    /\ db = EmptyStore
    /\ committed = EmptyStore
    /\ inTx = FALSE
    /\ hkey = [h \in AllHandles |-> NoKey]
    /\ obj = [h \in AllHandles |-> DefaultsOf(h)]
    /\ timers = EmptyMap
    /\ pendingSaves = EmptyMap
    /\ liveTimers = {}
    /\ sinceWrite = [k \in Keys |-> DEBOUNCE_MS]
    /\ rescheduled = [k \in Keys |-> FALSE]
    /\ ev = NoEv
    /\ tasks = [t \in Tasks |-> IdleTask]
    /\ txPre = EmptyStore
    /\ fnWrote = EmptyMap
    /\ now = 0
    /\ classMeta = InitialClassMeta
    /\ collectionMeta = InitialCollectionMeta
    /\ globalPendingFields = << >>
    /\ collPending = EmptyPending

\* The two functions over their inputs: every (type, value) is an initial
\* state, and the one step applies the function.
InitSerial ==
    /\ InitRest
    /\ ents = [e \in Ents |-> NoEntity]
    /\ res \in UNION {{[op |-> "value", type |-> t, value |-> v, foreign |-> FALSE] :
                          v \in ValuesOf(t)} : t \in FieldTypes}
               \cup {[op |-> "stored", type |-> t, value |-> v, foreign |-> FALSE] :
                       t \in FieldTypes, v \in StoredValues}

\* deserializeValue(serializeValue(value, type), type)
RoundTrip ==
    LET ser == SerializeValue(res.value, res.type) IN
    /\ res.op = "value"
    /\ res' = [op |-> "roundTrip", err |-> ser.err, type |-> res.type, value |-> res.value,
               stored |-> ser.out,
               back |-> IF ser.err = "none" THEN DeserializeValue(ser.out, res.type)
                        ELSE JsUndefined,
               foreign |-> FALSE]
    /\ UNCHANGED <<db, committed, ents>>
    /\ CollectionFrame

\* deserializeValue(value, type) of a stored value
Deserialize ==
    /\ res.op = "stored"
    /\ res' = [op |-> "deserialize", err |-> "none", type |-> res.type, value |-> res.value,
               back |-> DeserializeValue(res.value, res.type), foreign |-> FALSE]
    /\ UNCHANGED <<db, committed, ents>>
    /\ CollectionFrame

NextSerial ==
    \/ RoundTrip
    \/ Deserialize

SpecSerial == InitSerial /\ [][NextSerial]_vars

\* ------------------------------------------------ modify() in two pieces
\* modify is an async function: get, fn and the statement of save() run when
\* it is called, up to its one await; the rest (return entity) runs as a
\* microtask.  A call slot holds the entity of the call, whether its promise
\* is still pending, and (history) the balance its get() read.  Each slot
\* makes one call, with fn = (a) => { a.balance += d }.
ModifyCalls == {"m1", "m2"}
Deltas == {1, 2}
NoCall == [live |-> FALSE, id |-> "none", balance |-> 0, origin |-> "none",
           pending |-> FALSE, read |-> 0]
CallEntity(id, read, d) ==
    [live |-> TRUE, id |-> id, balance |-> read + d, origin |-> id,
     pending |-> TRUE, read |-> read]

\* A modify whose get() ran before the save of a call still in flight.
ModifyCall_ReadBeforeWrite(e, id, d) ==
    LET stale == {o \in ModifyCalls : ents[o].pending /\ ents[o].id = id}
        read == IF stale # {} THEN ents[CHOOSE o \in stale : TRUE].read
                ELSE PopulateCollectionInstance(id, db.coll[id]).balance
        entity == CallEntity(id, read, d)
        r == SaveCollectionRow(db.coll, entity)
    IN
    /\ ~ents[e].live
    /\ IF MapHas(db.coll, id)
         THEN /\ DbApply([WithCollectionTable(db, CollMeta) EXCEPT !.coll = r.coll])
              /\ ents' = [ents EXCEPT ![e] = entity]
              /\ res' = [op |-> "modifyCall", err |-> r.err, id |-> id, ent |-> e,
                         delta |-> d, foreign |-> inTx]
         ELSE /\ DbApply(WithCollectionTable(db, CollMeta))
              /\ ents' = ents
              /\ res' = [op |-> "modifyCall", err |-> "NotFound", id |-> id, ent |-> e,
                         delta |-> d, foreign |-> FALSE]
    /\ CollectionFrame

\* loader.modify(Cls, id, fn) is called: lines 598-607 up to the await.
ModifyCall(e, id, d) ==
    LET read == PopulateCollectionInstance(id, db.coll[id]).balance
        entity == CallEntity(id, read, d)
        r == SaveCollectionRow(db.coll, entity)
    IN
    /\ ~ents[e].live
    /\ IF MapHas(db.coll, id)
         THEN /\ DbApply([WithCollectionTable(db, CollMeta) EXCEPT !.coll = r.coll])
              /\ ents' = [ents EXCEPT ![e] = entity]
              /\ res' = [op |-> "modifyCall", err |-> r.err, id |-> id, ent |-> e,
                         delta |-> d, foreign |-> inTx]
         ELSE /\ DbApply(WithCollectionTable(db, CollMeta))
              /\ ents' = ents
              /\ res' = [op |-> "modifyCall", err |-> "NotFound", id |-> id, ent |-> e,
                         delta |-> d, foreign |-> FALSE]
    /\ CollectionFrame

\* The continuation after `await entity.save()`: the promise resolves with
\* the entity.
ModifyResume(e) ==
    /\ ents[e].pending
    /\ ents' = [ents EXCEPT ![e].pending = FALSE]
    /\ res' = [op |-> "modifyResolved", err |-> "none", id |-> ents[e].id, ent |-> e,
               foreign |-> FALSE]
    /\ UNCHANGED <<db, committed>>
    /\ CollectionFrame

InitModify ==
    /\ InitRest
    /\ ents = [e \in ModifyCalls |-> NoCall]
    /\ res = [op |-> "init", foreign |-> FALSE]

NextModify ==
    \/ \E id \in Ids, v \in Numbers : Create(id, v)
    \/ \E e \in ModifyCalls, id \in Ids, d \in Deltas : ModifyCall(e, id, d)
    \/ \E e \in ModifyCalls : ModifyResume(e)

SpecModify == InitModify /\ [][NextModify]_vars

\* The LIKE operators as a function of the caller's value and the column's
\* text: every pair is an initial state and the one step applies the query.
InitLike ==
    /\ db = EmptyStore
    /\ committed = EmptyStore
    /\ inTx = FALSE
    /\ hkey = [h \in AllHandles |-> NoKey]
    /\ obj = [h \in AllHandles |-> DefaultsOf(h)]
    /\ timers = EmptyMap
    /\ pendingSaves = EmptyMap
    /\ liveTimers = {}
    /\ sinceWrite = [k \in Keys |-> DEBOUNCE_MS]
    /\ rescheduled = [k \in Keys |-> FALSE]
    /\ ev = NoEv
    /\ tasks = [t \in Tasks |-> IdleTask]
    /\ txPre = EmptyStore
    /\ fnWrote = EmptyMap
    /\ res \in {[op |-> "input", kind |-> k, value |-> v, str |-> t, foreign |-> FALSE] :
                   k \in {"contains", "startsWith", "endsWith"}, v \in Strs, t \in Strs}
    /\ now = 0
    /\ ents = [e \in Ents |-> NoEntity]
    /\ classMeta = InitialClassMeta
    /\ collectionMeta = InitialCollectionMeta
    /\ globalPendingFields = << >>
    /\ collPending = EmptyPending

NextLike == FindLike

SpecLike == InitLike /\ [][NextLike]_vars

\* ------------------------------------------------------------ schema calls
\* The schema functions called on the store directly, as a deployment does
\* when a class changes between versions, next to load(), exists(), writes
\* through the proxy, flush() and create().
SchemaFrame ==
    /\ ev' = NoEv
    /\ UNCHANGED <<inTx, now, ents>>
    /\ UNCHANGED regVars
    /\ UNCHANGED singletonVars
    /\ UNCHANGED txVars

\* What a schema call leaves in res: the call, its outcome and whether it
\* altered the schema.
SchemaRes(op, table, meta, err, store) ==
    [op |-> op, table |-> table, meta |-> meta, err |-> err,
     changed |-> (store # db), foreign |-> FALSE]

CallEnsureTable(meta) ==
    LET r == EnsureTable(db.scols, meta) IN
    /\ DbApply([db EXCEPT !.scols = r.cols])
    /\ res' = SchemaRes("ensureTable", "single", meta, r.err,
                       [db EXCEPT !.scols = r.cols])
    /\ SchemaFrame

CallMigrateAdditive(meta) ==
    LET r == MigrateAdditive(db.scols, meta) IN
    /\ DbApply([db EXCEPT !.scols = r.cols])
    /\ res' = SchemaRes("migrateAdditive", "single", meta, r.err,
                       [db EXCEPT !.scols = r.cols])
    /\ SchemaFrame

CallEnsureCollectionTable(meta) ==
    LET r == EnsureCollectionTable(db.ccols, meta) IN
    /\ DbApply([db EXCEPT !.ccols = r.cols])
    /\ res' = SchemaRes("ensureCollectionTable", "coll", meta, r.err,
                       [db EXCEPT !.ccols = r.cols])
    /\ SchemaFrame

CallMigrateCollectionAdditive(meta) ==
    LET r == MigrateCollectionAdditive(db.ccols, meta) IN
    /\ DbApply([db EXCEPT !.ccols = r.cols])
    /\ res' = SchemaRes("migrateCollectionAdditive", "coll", meta, r.err,
                       [db EXCEPT !.ccols = r.cols])
    /\ SchemaFrame

CallEnsureIndices(meta) ==
    LET r == EnsureIndices(db.ccols, db.cidx, meta) IN
    /\ DbApply([db EXCEPT !.cidx = r.idx])
    /\ res' = SchemaRes("ensureIndices", "coll", meta, r.err,
                       [db EXCEPT !.cidx = r.idx])
    /\ SchemaFrame

\* exists(Cls, key) with a mutation: a row is made for a key that has none.
Exists_Creating(cls, k) ==
    /\ SingletonGuard(cls) = "none"
    /\ DbApply([WithTable(db, ClassMetaOf(cls)) EXCEPT
                  !.single = IF MapHas(db.single, k) THEN db.single
                             ELSE InsertRow(db.single, k, Defaults)])
    /\ res' = [op |-> "exists", cls |-> cls, err |-> "none", key |-> k,
               result |-> TRUE, foreign |-> FALSE]
    /\ SchemaFrame

\* exists(Cls, key): the schema calls, then SELECT ... WHERE key = ?.
Exists(cls, k) ==
    /\ IF SingletonGuard(cls) # "none"
         THEN /\ UNCHANGED <<db, committed>>
              /\ res' = [op |-> "exists", cls |-> cls, err |-> SingletonGuard(cls),
                         key |-> k, result |-> FALSE, foreign |-> FALSE]
         ELSE /\ DbApply(WithTable(db, ClassMetaOf(cls)))
              /\ res' = [op |-> "exists", cls |-> cls, err |-> "none", key |-> k,
                         result |-> MapHas(db.single, k), foreign |-> FALSE]
    /\ SchemaFrame

SingletonMetas == {BasicMeta, LegacyMeta}
CollectionMetas == {CollMeta, OldCollMeta}

NextSchema ==
    \/ \E m \in SingletonMetas : CallEnsureTable(m)
    \/ \E m \in SingletonMetas : CallMigrateAdditive(m)
    \/ \E m \in CollectionMetas : CallEnsureCollectionTable(m)
    \/ \E m \in CollectionMetas : CallMigrateCollectionAdditive(m)
    \/ \E m \in CollectionMetas : CallEnsureIndices(m)
    \/ \E cls \in {"BasicState", "TxAccount"}, k \in Keys : Exists(cls, k)
    \/ \E h \in {"h0", "h1", "hc"} : Load(h, "k1")
    \/ \E h \in {"h0", "h1"} : ProxySet(h, "name", "x")
    \/ Flush
    \/ Create("a1", 1)

SpecSchema == Init /\ [][NextSchema]_vars

\* ------------------------------------------------------ class definitions
\* The evaluation of a decorated class definition is one synchronous step:
\* the member decorators run in source order and stage their declarations,
\* then the class decorator runs.  A class can be defined when its
\* superclass exists: a plain class, or a class whose own definition
\* completed.
Registered == (DOMAIN classMeta) \cup (DOMAIN collectionMeta)
MayDefine(cls) ==
    /\ cls \notin Registered
    /\ Parent(cls) \in {NoClass} \cup PlainClasses \cup Registered

RegistryFrame ==
    /\ ev' = NoEv
    /\ UNCHANGED <<db, committed, inTx>>
    /\ UNCHANGED singletonVars
    /\ UNCHANGED txVars
    /\ UNCHANGED entVars

\* @Persisted(cls) class cls extends Parent(cls) { @Field(...) ... }
DefineSingleton(cls, decls) ==
    LET staged == StageFields(globalPendingFields, cls, decls)
        r == Persisted(classMeta, staged, cls)
    IN  /\ MayDefine(cls)
        /\ classMeta' = r.classMeta
        /\ globalPendingFields' = r.pending
        /\ res' = [op |-> "Persisted", cls |-> cls, err |-> r.err, decls |-> decls,
                   ids |-> << >>, indices |-> << >>, foreign |-> FALSE]
        /\ UNCHANGED <<collectionMeta, collPending>>
        /\ RegistryFrame

\* @PersistedCollection(cls) class cls extends Parent(cls)
\*   { @Id(...) ...; @Field(...) @Index() ... }
DefineCollection(cls, ids, decls, indices) ==
    LET staged == StageIndices(
                      [StageIds(collPending, cls, ids)
                         EXCEPT !.fields = StageFields(collPending.fields, cls, decls)],
                      cls, indices)
        r == PersistedCollection(collectionMeta, staged, cls)
    IN  /\ MayDefine(cls)
        /\ collectionMeta' = r.collectionMeta
        /\ collPending' = r.pending
        /\ res' = [op |-> "PersistedCollection", cls |-> cls, err |-> r.err,
                   decls |-> decls, ids |-> ids, indices |-> indices, foreign |-> FALSE]
        /\ UNCHANGED <<classMeta, globalPendingFields>>
        /\ RegistryFrame

\* The field and index declarations in the body of each class, and the id
\* declarations a collection class may carry.
FieldsOf(cls) ==
    CASE cls \in {"S1", "C1"} -> <<Decl("value", "number", NoOption),
                                   Decl("lastLogin", "date", "login_at")>>
      [] cls \in {"S2", "C2", "C4"} -> <<Decl("lastLogin", "date", NoOption)>>
      [] cls \in {"S3", "C3"} -> <<Decl("value", "string", NoOption)>>
      [] OTHER -> << >>
IndicesOf(cls) == IF cls \in {"C2", "C4"} THEN <<"lastLogin">> ELSE << >>
IdDecls ==
    { << >>,
      <<Decl("id", "string", NoOption)>>,
      <<Decl("userId", "number", "uid")>>,
      <<Decl("id", "string", NoOption), Decl("userId", "number", NoOption)>> }

NextRegistry ==
    \/ \E cls \in SingletonClasses : DefineSingleton(cls, FieldsOf(cls))
    \/ \E cls \in CollectionClasses, ids \in IdDecls :
          DefineCollection(cls, ids, FieldsOf(cls), IndicesOf(cls))

SpecRegistry == Init /\ [][NextRegistry]_vars

\* ------------------------------------------------------------ transaction
\* The engine's transaction control on the one connection: BEGIN IMMEDIATE
\* is refused while a transaction is open, COMMIT/ROLLBACK while none is.
BeginThrows == inTx
EndThrows == ~inTx

FnRes(t) == [op |-> "fn", task |-> t, foreign |-> FALSE]

\* transaction(fn) is called: line 562 runs at once.  parent = NoTask is a
\* call from outside any callback; otherwise the callback of `parent` makes
\* the call and awaits it.  A failed BEGIN is thrown before the try block, so
\* the promise rejects, fn never runs and no COMMIT or ROLLBACK is issued.
\* A promise awaited by the outside caller is handed over in res.
TxCall_SwallowBegin(t, parent) ==
    LET fails == FALSE IN
    /\ tasks[t].pc = "idle"
    /\ parent # t
    /\ IF parent = NoTask THEN ~MicrotaskPending ELSE tasks[parent].pc = "body"
    /\ tasks' = [x \in Tasks |->
                   IF x = t
                     THEN IF ~fails THEN [IdleTask EXCEPT !.pc = "body", !.parent = parent]
                          ELSE IF parent = NoTask THEN IdleTask
                          ELSE [IdleTask EXCEPT !.pc = "rejected", !.result = "NestedBegin",
                                                !.parent = parent]
                   ELSE IF x = parent THEN [tasks[x] EXCEPT !.pc = "awaiting"]
                   ELSE tasks[x]]
    /\ inTx' = TRUE
    /\ txPre' = IF inTx THEN txPre ELSE db
    /\ fnWrote' = IF inTx THEN fnWrote ELSE EmptyMap
    /\ res' = [op |-> "begin", task |-> t, parent |-> parent, open |-> inTx,
               err |-> IF fails THEN "NestedBegin" ELSE "none", foreign |-> FALSE]
    /\ ev' = NoEv
    /\ UNCHANGED <<db, committed>>
    /\ UNCHANGED singletonVars
    /\ UNCHANGED entVars
    /\ UNCHANGED regVars

\* A transaction() whose BEGIN is inside the try block: a refused BEGIN is
\* answered with ROLLBACK.
TxCall_BeginInTry(t, parent) ==
    LET fails == BeginThrows IN
    /\ tasks[t].pc = "idle"
    /\ parent # t
    /\ IF parent = NoTask THEN ~MicrotaskPending ELSE tasks[parent].pc = "body"
    /\ tasks' = [x \in Tasks |->
                   IF x = t
                     THEN IF ~fails THEN [IdleTask EXCEPT !.pc = "body", !.parent = parent]
                          ELSE IF parent = NoTask THEN IdleTask
                          ELSE [IdleTask EXCEPT !.pc = "rejected", !.result = "NestedBegin",
                                                !.parent = parent]
                   ELSE IF x = parent THEN [tasks[x] EXCEPT !.pc = "awaiting"]
                   ELSE tasks[x]]
    /\ inTx' = ~fails
    /\ txPre' = IF inTx THEN txPre ELSE db
    /\ fnWrote' = IF inTx THEN fnWrote ELSE EmptyMap
    /\ res' = [op |-> "begin", task |-> t, parent |-> parent, open |-> inTx,
               err |-> IF fails THEN "NestedBegin" ELSE "none", foreign |-> FALSE]
    /\ ev' = NoEv
    /\ db' = IF fails THEN committed ELSE db
    /\ committed' = committed
    /\ UNCHANGED singletonVars
    /\ UNCHANGED entVars
    /\ UNCHANGED regVars

TxCall(t, parent) ==
    LET fails == BeginThrows IN
    /\ tasks[t].pc = "idle"
    /\ parent # t
    /\ IF parent = NoTask THEN ~MicrotaskPending ELSE tasks[parent].pc = "body"
    /\ tasks' = [x \in Tasks |->
                   IF x = t
                     THEN IF ~fails THEN [IdleTask EXCEPT !.pc = "body", !.parent = parent]
                          ELSE IF parent = NoTask THEN IdleTask
                          ELSE [IdleTask EXCEPT !.pc = "rejected", !.result = "NestedBegin",
                                                !.parent = parent]
                   ELSE IF x = parent THEN [tasks[x] EXCEPT !.pc = "awaiting"]
                   ELSE tasks[x]]
    /\ inTx' = TRUE
    /\ txPre' = IF inTx THEN txPre ELSE db
    /\ fnWrote' = IF inTx THEN fnWrote ELSE EmptyMap
    /\ res' = [op |-> "begin", task |-> t, parent |-> parent, open |-> inTx,
               err |-> IF fails THEN "NestedBegin" ELSE "none", foreign |-> FALSE]
    /\ ev' = NoEv
    /\ UNCHANGED <<db, committed>>
    /\ UNCHANGED singletonVars
    /\ UNCHANGED entVars
    /\ UNCHANGED regVars

\* The callback calls loader.create(...); `catches`: it handles the error of
\* a refused insert itself instead of letting it escape.
FnCreate(t, id, v, catches) ==
    LET r == InsertCollectionRow(db.coll, id, v) IN
    /\ tasks[t].pc = "body"
    /\ DbApply([WithCollectionTable(db, CollMeta) EXCEPT !.coll = r.coll])
    /\ tasks' = [tasks EXCEPT ![t] =
                   IF r.err # "none" /\ ~catches
                     THEN [@ EXCEPT !.pc = "threw", !.out = r.err] ELSE @]
    /\ fnWrote' = IF r.err = "none" THEN MapSet(fnWrote, id, v) ELSE fnWrote
    /\ res' = FnRes(t)
    /\ ev' = NoEv
    /\ UNCHANGED <<inTx, txPre>>
    /\ UNCHANGED singletonVars
    /\ UNCHANGED entVars
    /\ UNCHANGED regVars

\* The callback calls loader.updateWhere(Cls, {id}, {balance: v}).
FnUpdate(t, id, v) ==
    LET r == UpdateWhere(db.coll, [given |-> TRUE, entries |-> <<Eq("id", id)>>],
                         <<Eq("balance", v)>>) IN
    /\ tasks[t].pc = "body"
    /\ DbApply([WithCollectionTable(db, CollMeta) EXCEPT !.coll = r.coll])
    /\ fnWrote' = IF r.changes > 0 THEN MapSet(fnWrote, id, v) ELSE fnWrote
    /\ res' = FnRes(t)
    /\ ev' = NoEv
    /\ UNCHANGED <<inTx, txPre, tasks>>
    /\ UNCHANGED singletonVars
    /\ UNCHANGED entVars
    /\ UNCHANGED regVars

\* The callback throws e / returns v: its promise settles.
FnThrow(t, e) ==
    /\ tasks[t].pc = "body"
    /\ tasks' = [tasks EXCEPT ![t] = [@ EXCEPT !.pc = "threw", !.out = e]]
    /\ res' = FnRes(t)
    /\ ev' = NoEv
    /\ UNCHANGED <<db, committed, inTx, txPre, fnWrote>>
    /\ UNCHANGED singletonVars
    /\ UNCHANGED entVars
    /\ UNCHANGED regVars

FnReturn(t, v) ==
    /\ tasks[t].pc = "body"
    /\ tasks' = [tasks EXCEPT ![t] = [@ EXCEPT !.pc = "returned", !.out = v]]
    /\ res' = FnRes(t)
    /\ ev' = NoEv
    /\ UNCHANGED <<db, committed, inTx, txPre, fnWrote>>
    /\ UNCHANGED singletonVars
    /\ UNCHANGED entVars
    /\ UNCHANGED regVars

\* The callback's `await loader.transaction(...)` resumes with the settled
\* inner call c: a rejection either escapes the callback or is caught.
FnAwaitInner(t, c, catches) ==
    /\ tasks[t].pc = "awaiting"
    /\ tasks[c].parent = t
    /\ tasks[c].pc \in {"resolved", "rejected"}
    /\ tasks' = [tasks EXCEPT
                   ![t] = IF tasks[c].pc = "rejected" /\ ~catches
                            THEN [@ EXCEPT !.pc = "threw", !.out = tasks[c].result,
                                           !.nestedFail = TRUE]
                            ELSE [@ EXCEPT !.pc = "body",
                                           !.nestedCaught = @ \/ tasks[c].pc = "rejected"],
                   ![c] = IdleTask]
    /\ res' = FnRes(t)
    /\ ev' = NoEv
    /\ UNCHANGED <<db, committed, inTx, txPre, fnWrote>>
    /\ UNCHANGED singletonVars
    /\ UNCHANGED entVars
    /\ UNCHANGED regVars

\* Lines 564-570 after `await fn()`: COMMIT and resolve with fn's value, or
\* ROLLBACK and rethrow what fn threw.  A COMMIT or ROLLBACK with no open
\* transaction throws, and that error is what the caller gets.
TxSettle_CommitOnThrow(t) ==
    LET threw == tasks[t].pc = "threw"
        outcome == IF threw \/ EndThrows THEN "rejected" ELSE "resolved"
        result == IF EndThrows THEN "NoTx" ELSE IF threw THEN tasks[t].out ELSE tasks[t].out
    IN
    /\ tasks[t].pc \in {"returned", "threw"}
    /\ tasks' = [tasks EXCEPT ![t] =
                   IF tasks[t].parent = NoTask THEN IdleTask
                   ELSE [@ EXCEPT !.pc = outcome, !.result = result]]
    /\ inTx' = FALSE
    /\ db' = db
    /\ committed' = IF EndThrows THEN committed ELSE db
    /\ txPre' = EmptyStore
    /\ fnWrote' = EmptyMap
    /\ res' = [op |-> "settle", task |-> t, threw |-> threw, out |-> tasks[t].out,
               outcome |-> outcome, result |-> result, pre |-> txPre, wrote |-> fnWrote,
               nestedFail |-> tasks[t].nestedFail,
               nestedCaught |-> tasks[t].nestedCaught, foreign |-> FALSE]
    /\ ev' = NoEv
    /\ UNCHANGED singletonVars
    /\ UNCHANGED entVars
    /\ UNCHANGED regVars

TxSettle_Wrap(t) ==
    LET threw == tasks[t].pc = "threw"
        outcome == IF threw \/ EndThrows THEN "rejected" ELSE "resolved"
        result == IF EndThrows THEN "NoTx" ELSE IF threw THEN "TransactionFailed" ELSE tasks[t].out
    IN
    /\ tasks[t].pc \in {"returned", "threw"}
    /\ tasks' = [tasks EXCEPT ![t] =
                   IF tasks[t].parent = NoTask THEN IdleTask
                   ELSE [@ EXCEPT !.pc = outcome, !.result = result]]
    /\ inTx' = FALSE
    /\ db' = IF EndThrows \/ ~threw THEN db ELSE committed
    /\ committed' = IF EndThrows \/ threw THEN committed ELSE db
    /\ txPre' = EmptyStore
    /\ fnWrote' = EmptyMap
    /\ res' = [op |-> "settle", task |-> t, threw |-> threw, out |-> tasks[t].out,
               outcome |-> outcome, result |-> result, pre |-> txPre, wrote |-> fnWrote,
               nestedFail |-> tasks[t].nestedFail,
               nestedCaught |-> tasks[t].nestedCaught, foreign |-> FALSE]
    /\ ev' = NoEv
    /\ UNCHANGED singletonVars
    /\ UNCHANGED entVars
    /\ UNCHANGED regVars

TxSettle(t) ==
    LET threw == tasks[t].pc = "threw"
        outcome == IF threw \/ EndThrows THEN "rejected" ELSE "resolved"
        result == IF EndThrows THEN "NoTx" ELSE IF threw THEN tasks[t].out ELSE tasks[t].out
    IN
    /\ tasks[t].pc \in {"returned", "threw"}
    /\ tasks' = [tasks EXCEPT ![t] =
                   IF tasks[t].parent = NoTask THEN IdleTask
                   ELSE [@ EXCEPT !.pc = outcome, !.result = result]]
    /\ inTx' = FALSE
    /\ db' = IF EndThrows \/ ~threw THEN db ELSE committed
    /\ committed' = IF EndThrows \/ threw THEN committed ELSE db
    /\ txPre' = EmptyStore
    /\ fnWrote' = EmptyMap
    /\ res' = [op |-> "settle", task |-> t, threw |-> threw, out |-> tasks[t].out,
               outcome |-> outcome, result |-> result, pre |-> txPre, wrote |-> fnWrote,
               nestedFail |-> tasks[t].nestedFail,
               nestedCaught |-> tasks[t].nestedCaught, foreign |-> FALSE]
    /\ ev' = NoEv
    /\ UNCHANGED singletonVars
    /\ UNCHANGED entVars
    /\ UNCHANGED regVars

\* The calls made in the transaction scenarios.  t1 is the transaction whose
\* callback runs; t2 is a second transaction() call made while t1 is open,
\* from t1's callback or from outside.  One handle is loaded for k1 and has
\* its `count` written; the callback creates rows and updates a1; another
\* task creates a2.
UserErrors == {"e1"}
ReturnValues == {"v1"}
ParentsOf(t) == IF t = "t1" THEN {NoTask} ELSE {NoTask, "t1"}
MayCall(t) == t = "t1" \/ tasks["t1"].pc = "body"

NextTx ==
    \/ \E t \in Tasks : \E p \in ParentsOf(t) : MayCall(t) /\ TxCall(t, p)
    \/ \E t \in Tasks, id \in Ids, c \in BOOLEAN : FnCreate(t, id, 0, c)
    \/ \E t \in Tasks : FnUpdate(t, "a1", 1)
    \/ \E t \in Tasks, e \in UserErrors : FnThrow(t, e)
    \/ \E t \in Tasks, v \in ReturnValues : FnReturn(t, v)
    \/ \E t \in Tasks, c \in Tasks, k \in BOOLEAN : FnAwaitInner(t, c, k)
    \/ \E t \in Tasks : TxSettle(t)
    \/ ~MicrotaskPending /\ Create("a2", 0)
    \/ ~MicrotaskPending /\ Load("h1", "k1")
    \/ ~MicrotaskPending /\ ProxySet("h1", "count", 1)
    \/ \E t \in liveTimers : TimerFire(t)
    \/ Tick

SpecTx == Init /\ [][NextTx]_vars

Next ==
    \/ \E h \in Handles : \E k \in LoadableKeys(h) : Load(h, k)
    \/ \E h \in Handles : \E p \in WritableProps(h) : \E v \in PropValues(p) : ProxySet(h, p, v)
    \/ \E t \in liveTimers : TimerFire(t)
    \/ Flush
    \/ Tick

Spec == Init /\ [][Next]_vars

\* One key and a number field that can be set to NaN: the saves that throw.
NextNaN ==
    \/ \E h \in Handles : Load(h, "k1")
    \/ \E h \in Handles, v \in {0, 1, NaN} : ProxySet(h, "count", v)
    \/ \E t \in liveTimers : TimerFire(t)
    \/ Flush
    \/ Tick

SpecNaN == Init /\ [][NextNaN]_vars

\* ------------------------------------------------------------ C2 .. C5
\* C2 (debounce coalescing): while a save for a key stays pending no UPDATE
\* runs for it; the step that ends the series (the timer, or flush) runs
\* exactly one UPDATE for the key and the stored row then holds the current
\* (final) value of every declared field of the written object; a key with
\* nothing pending gets no UPDATE.
C2_Coalescing ==
    [][\A k \in Keys :
         /\ (MapHas(pendingSaves, k) /\ MapHas(pendingSaves', k)) => ev'.n[k] = 0
         /\ (MapHas(pendingSaves, k) /\ ~MapHas(pendingSaves', k)) =>
                /\ ev'.n[k] = 1
                /\ db'.single[k] = RowOf(obj[pendingSaves[k]])
         /\ ~MapHas(pendingSaves, k) => ev'.n[k] = 0]_vars

\* Two or more writes to both fields of k1 were coalesced into one UPDATE by
\* the timer, which stored the final values.
C2_Witness ==
    /\ ev.op = "fire" /\ ev.n["k1"] = 1 /\ ev.re
    /\ db.single["k1"] = [name |-> "x", count |-> 1]

\* C3 (flush): a flush() step leaves no timer and no pending save, has run
\* exactly one UPDATE for every key that was pending, storing the object's
\* current field values, and none for any other key; with nothing pending it
\* changes neither the store nor any object.
C3_Flush ==
    [][ev'.op = "flush" =>
         /\ timers' = EmptyMap
         /\ pendingSaves' = EmptyMap
         /\ liveTimers' = {}
         /\ \A k \in Keys :
               IF MapHas(pendingSaves, k)
                 THEN ev'.n[k] = 1 /\ db'.single[k] = RowOf(obj'[pendingSaves[k]])
                 ELSE ev'.n[k] = 0
         /\ (pendingSaves = EmptyMap => (db' = db /\ obj' = obj))]_vars

\* flush() ran with saves pending for both keys.
C3_Witness ==
    /\ ev.op = "flush" /\ ev.n["k1"] = 1 /\ ev.n["k2"] = 1
    /\ db.single["k2"].count = 1

\* C4 (at most one scheduled write per key): every key has at most one live
\* host timer, a live timer is the one the timers map holds for its key, and
\* every timers entry has its pending save.
C4_OneTimerPerKey ==
    \A k \in Keys :
        /\ Cardinality({t \in liveTimers : t.key = k}) <= 1
        /\ \A t \in liveTimers : t.key = k => (MapHas(timers, k) /\ timers[k] = t.id)
        /\ MapHas(timers, k) => MapHas(pendingSaves, k)

\* A write arrived while a save for k1 was pending: the series was rescheduled
\* and one timer is live for it.
C4_Witness ==
    /\ rescheduled["k1"]
    /\ Cardinality({t \in liveTimers : t.key = "k1"}) = 1

\* C5 (debounce timer reset): an UPDATE run by a timer lands no earlier than
\* DEBOUNCE_MS after the most recent declared-field write to its key.
C5_TimerReset ==
    \A k \in Keys : (ev.op = "fire" /\ ev.n[k] = 1) => ev.since >= DEBOUNCE_MS

\* The timer of a rescheduled series fired and wrote the row.
C5_Witness == ev.op = "fire" /\ ev.n["k1"] = 1 /\ ev.re /\ ev.since >= DEBOUNCE_MS

\* ------------------------------------------------------------ C1, C6 .. C8
\* C1: transaction atomicity.  When the callback threw, the store after the
\* settling step equals the store before BEGIN (every write rolled back);
\* when it returned, every write of the callback is durable with the value
\* it wrote last; while the transaction is open nothing of it is durable.
C1_Atomicity ==
    /\ inTx => committed = txPre
    /\ res.op = "settle" =>
         IF res.threw
           THEN db = res.pre /\ committed = res.pre
           ELSE /\ committed = db
                /\ \A id \in DOMAIN res.wrote :
                     MapHas(committed.coll, id) /\ committed.coll[id].balance = res.wrote[id]

C1_Witness ==
    /\ res.op = "settle" /\ res.threw /\ res.out = "e1"
    /\ DOMAIN res.wrote = Ids
    /\ MapHas(res.pre.coll, "a1") /\ db.coll["a1"].balance = 0 /\ res.wrote["a1"] = 1

\* C6: transaction() excludes other writers.  Between BEGIN and
\* COMMIT/ROLLBACK every step that changes the store is a statement of the
\* callback.
C6_ExcludesOtherWriters ==
    [][(inTx /\ inTx' /\ db' # db) => res'.op = "fn"]_vars

\* C7: nested transactions fail loudly.  A transaction() call made by the
\* callback of an open transaction fails at its BEGIN and its callback never
\* runs; when the outer callback lets that error escape, the outer call
\* rejects with it and the store is back to what it was before the outer
\* BEGIN.
C7_NestedFailsLoudly ==
    /\ (res.op = "begin" /\ res.parent # NoTask) =>
          /\ res.err = "NestedBegin"
          /\ tasks[res.task].pc = "rejected" /\ tasks[res.task].result = "NestedBegin"
    /\ \A t \in Tasks : tasks[t].parent # NoTask => tasks[t].pc = "rejected"
    /\ (res.op = "settle" /\ res.nestedFail) =>
          /\ res.outcome = "rejected" /\ res.result = "NestedBegin"
          /\ db = res.pre /\ committed = res.pre

C7_Witness ==
    /\ res.op = "settle" /\ res.nestedFail /\ res.result = "NestedBegin"
    /\ res.wrote # EmptyMap /\ db.coll = EmptyMap

\* C8: rollback, then rethrow the original.  When the callback threw e the
\* call rejects with e itself, the transaction is closed and the store is
\* rolled back; when the callback returned v the call resolves to v.
C8_RethrowOriginal ==
    res.op = "settle" =>
        IF res.threw
          THEN /\ res.outcome = "rejected" /\ res.result = res.out
               /\ ~inTx /\ db = committed /\ db = res.pre
          ELSE res.outcome = "resolved" /\ res.result = res.out

C8_Witness ==
    /\ res.op = "settle" /\ res.threw /\ res.outcome = "rejected"
    /\ res.result = "e1" /\ res.wrote # EmptyMap /\ ~res.nestedFail

\* ------------------------------------------------------------ C9, C10
\* A predicate with no condition: undefined, {} or only undefined values.
EmptyPredicate(where) ==
    ~where.given \/ \A i \in 1..Len(where.entries) : ~where.entries[i].def

\* C9 as stated: updateWhere with an empty predicate throws "requires at
\* least one WHERE condition" and changes no row, whatever updates holds.
C9_ThrowsWhereRequired ==
    [][(res'.op = "updateWhere" /\ EmptyPredicate(res'.where)) =>
          (res'.err = "WhereRequired" /\ db'.coll = db.coll)]_vars

\* C9, amended: updateWhere with an empty predicate always throws and
\* changes no row; the error is "requires at least one WHERE condition"
\* unless a value in updates cannot be serialized, in which case the
\* serializer's error is thrown first.
C9_EmptyPredicateRejected ==
    [][(res'.op = "updateWhere" /\ EmptyPredicate(res'.where)) =>
          /\ res'.err = (IF SetThrows(res'.updates) THEN "NaN" ELSE "WhereRequired")
          /\ res'.changes = 0
          /\ db'.coll = db.coll /\ committed'.coll = committed.coll]_vars

C9_Witness ==
    /\ res.op = "updateWhere" /\ res.where.given /\ Len(res.where.entries) = 2
    /\ EmptyPredicate(res.where)
    /\ res.err = "WhereRequired" /\ res.rows = 2
    /\ res.updates = <<Eq("balance", 1)>>
    /\ \A id \in Ids : db.coll[id].balance = 0

\* C10: deleteWhere with an empty filter ({} or undefined) does not throw,
\* deletes every row and returns how many rows there were.
C10_DeleteAllPermitted ==
    (res.op = "deleteWhere" /\ (~res.where.given \/ Len(res.where.entries) = 0)) =>
        (res.err = "none" /\ res.changes = res.rows /\ Count(db.coll) = 0)

\* ------------------------------------------------- C11 .. C13, C18 .. C20
\* The row of id is the same before and after the step.
SameRow(id) ==
    /\ MapHas(db'.coll, id) = MapHas(db.coll, id)
    /\ MapHas(db.coll, id) => db'.coll[id] = db.coll[id]

\* C11: upsert preserves created_at.  A successful upsert of an id leaves a
\* row for it holding the upserted field value and updated_at = now; when
\* the id had a row, created_at and the row count are what they were; when
\* it had none, one row is added; no other row changes.
C11_UpsertPreservesCreatedAt ==
    [][(res'.op = "upsert" /\ res'.err = "none") =>
          /\ MapHas(db'.coll, res'.id)
          /\ CellOf(db'.coll[res'.id], "balance") = res'.val
          /\ db'.coll[res'.id].updated_at = now
          /\ IF MapHas(db.coll, res'.id)
               THEN /\ db'.coll[res'.id].created_at = db.coll[res'.id].created_at
                    /\ Count(db'.coll) = Count(db.coll)
               ELSE /\ db'.coll[res'.id].created_at = now
                    /\ Count(db'.coll) = Count(db.coll) + 1
          /\ \A o \in Ids \ {res'.id} : SameRow(o)]_vars

C11_Witness ==
    /\ res.op = "upsert" /\ res.err = "none" /\ res.val = 1
    /\ db.coll[res.id].created_at = 0 /\ db.coll[res.id].updated_at = 1
    /\ Count(db.coll) = 2

\* C12: created_at is set once.  A bound save(), a modify() or an
\* updateWhere() leaves the created_at of every row it finds (also of one it
\* re-keys) and sets updated_at = now in every row it updates.
C12_CreatedAtKept ==
    [][(res'.op \in {"save", "modify", "updateWhere"}) =>
          /\ \A id \in Ids : (MapHas(db.coll, id) /\ MapHas(db'.coll, id)) =>
                db'.coll[id].created_at = db.coll[id].created_at
          /\ \A id \in res'.touched :
                MapHas(db'.coll, id) /\ db'.coll[id].updated_at = now
          /\ (res'.op = "updateWhere" /\ res'.err = "none") =>
                \A a \in Matching(db.coll, BuildWhere(res'.where).conds) :
                   db'.coll[SetId(a, SetClauses(res'.updates))].created_at
                     = db.coll[a].created_at]_vars

C12_Witness ==
    /\ res.op = "save" /\ res.changes = 1
    /\ db.coll[ents[res.ent].id].created_at = 0
    /\ db.coll[ents[res.ent].id].updated_at = 1

\* C13: one row per id.  create() with an id that has a row throws the
\* constraint error and leaves the table as it was; a create() that succeeds
\* adds exactly the one row, for an id that had none.
C13_DuplicateCreateRefused ==
    [][res'.op = "create" =>
          /\ MapHas(db.coll, res'.id) => res'.err = "Constraint"
          /\ res'.err # "none" => db'.coll = db.coll
          /\ res'.err = "none" =>
                /\ ~MapHas(db.coll, res'.id)
                /\ Count(db'.coll) = Count(db.coll) + 1
                /\ \A o \in Ids \ {res'.id} : SameRow(o)]_vars

C13_Witness ==
    /\ res.op = "create" /\ res.err = "Constraint" /\ now = 1
    /\ db.coll[res.id].created_at = 0 /\ db.coll[res.id].updated_at = 0
    /\ CellOf(db.coll[res.id], "balance") # res.val

\* C18: get() reflects exactly what is stored.  It returns null when no row
\* has the id; otherwise the entity's id is the row's and its field is the
\* stored value, null where NULL is stored.
C18_GetReflectsStored ==
    res.op = "get" =>
        IF res.found
          THEN /\ res.ent.id = res.id
               /\ res.ent.balance = CellOf(db.coll[res.id], "balance")
          ELSE res.ent = NoEntity

\* C19: save() and delete() are bound to the row the entity was returned
\* for.  They change no row other than the one whose id the entity had when
\* it was returned.
C19_BoundToReturnedRow ==
    [][(res'.op \in {"save", "delete"}) =>
          \A id \in Ids \ {ents[res'.ent].origin} : SameRow(id)]_vars

\* C20: no implicit persistence.  Assigning a property of an entity changes
\* nothing in the store and schedules no save; a stored row changes or
\* disappears only in a save(), delete(), modify() or bulk call.
C20_NoImplicitPersistence ==
    [][/\ res'.op = "assign" =>
            /\ db' = db /\ committed' = committed
            /\ timers' = timers /\ pendingSaves' = pendingSaves /\ liveTimers' = liveTimers
       /\ \A id \in Ids : (MapHas(db.coll, id) /\ ~SameRow(id)) =>
            res'.op \in {"save", "delete", "modify", "upsert", "updateWhere", "deleteWhere"}]_vars

C20_Witness ==
    /\ res.op = "assign" /\ ents[res.ent].id = ents[res.ent].origin
    /\ MapHas(db.coll, ents[res.ent].id)
    /\ CellOf(db.coll[ents[res.ent].id], "balance") = 0 /\ ents[res.ent].balance = 1

\* ------------------------------------------------------------ C14 .. C17
SchemaOps == {"ensureTable", "migrateAdditive", "ensureCollectionTable",
              "migrateCollectionAdditive", "ensureIndices"}

\* The columns of the table a schema call named, before and after it, and
\* the columns its metadata asks for.
ColsOf(store, table) == IF table = "single" THEN store.scols ELSE store.ccols
Wanted(table, meta) ==
    Range(meta.fields) \cup
    (IF table = "single" THEN {"updated_at"} ELSE {"created_at", "updated_at"})

\* C14: additive migration is lossless.  No step removes a column of either
\* table; a schema call leaves every row and every cell as it was (a column
\* it adds is NULL in the rows there are); and when ensureTable finds no
\* table, or a migrate call returns, the table has every field column of the
\* metadata and the timestamp columns.
C14_MigrationLossless ==
    [][/\ db.scols \subseteq db'.scols
       /\ db.ccols \subseteq db'.ccols
       /\ \A k \in DOMAIN db'.single : DOMAIN db'.single[k] \subseteq db'.scols
       /\ \A id \in DOMAIN db'.coll : DOMAIN db'.coll[id] \subseteq db'.ccols
       /\ res'.op \in SchemaOps =>
            /\ db'.single = db.single
            /\ db'.coll = db.coll
            /\ (/\ res'.err = "none"
                /\ \/ res'.op \in {"migrateAdditive", "migrateCollectionAdditive"}
                   \/ /\ res'.op \in {"ensureTable", "ensureCollectionTable"}
                      /\ ColsOf(db, res'.table) = {})
               => Wanted(res'.table, res'.meta) \subseteq ColsOf(db', res'.table)]_vars

\* A row written under the old field set is in the table, with a value the
\* defaults do not hold, when the migration to the new field set returns: the
\* old column and the new one are both there.
C14_Witness ==
    /\ res.op = "migrateAdditive" /\ res.err = "none" /\ res.meta = BasicMeta
    /\ MapHas(db.single, "k1")
    /\ db.single["k1"] = [name |-> "x", legacy |-> 1]
    /\ {"legacy", "count"} \subseteq db.scols

\* The table has every column the metadata asks for: the state an
\* ensure-then-migrate pass with this metadata leaves (C14), and keeps.
Complete(store, table, meta) == Wanted(table, meta) \subseteq ColsOf(store, table)

\* C15 as stated: once the table is complete for the metadata, a further
\* schema call with it (ensureIndices included) does not throw and changes
\* neither the column set nor the index set.
C15_FurtherCallsChangeNothing ==
    [][(res'.op \in SchemaOps /\ Complete(db, res'.table, res'.meta)) =>
          /\ res'.err = "none"
          /\ db'.scols = db.scols /\ db'.ccols = db.ccols
          /\ db'.cidx = db.cidx]_vars

\* C15, amended: once the table is complete for the metadata, a further
\* schema call with it does not throw and does not change the column set;
\* the ensure and migrate calls do not change the index set, and
\* ensureIndices leaves exactly the indices there were and those of the
\* metadata, so it changes the index set only where one was missing.
C15_SchemaCallsConverge ==
    [][(res'.op \in SchemaOps /\ Complete(db, res'.table, res'.meta)) =>
          /\ res'.err = "none"
          /\ db'.scols = db.scols /\ db'.ccols = db.ccols
          /\ IF res'.op = "ensureIndices"
               THEN db'.cidx = db.cidx \cup Range(res'.meta.indices)
               ELSE db'.cidx = db.cidx]_vars

\* A repeated ensureIndices call: the index of the metadata is there and the
\* call altered nothing, on a table that also has the other version's column.
C15_Witness ==
    /\ res.op = "ensureIndices" /\ res.err = "none" /\ ~res.changed
    /\ res.meta = CollMeta /\ <<"balance">> \in db.cidx
    /\ "owner" \in db.ccols

\* C16: exists() answers whether a row with the key is stored and writes no
\* row; load() inserts one row holding the class defaults when the key has
\* none and no row when it has one.  (One row per key: the singleton table
\* is keyed by its primary key.)
C16_ExistsReadsLoadInsertsOnce ==
    [][/\ (res'.op = "exists" /\ res'.err = "none") =>
            /\ res'.result = MapHas(db.single, res'.key)
            /\ db'.single = db.single
       /\ (res'.op = "load" /\ res'.err = "none") =>
            IF MapHas(db.single, res'.key)
              THEN db'.single = db.single
              ELSE /\ db'.single = MapSet(db.single, res'.key,
                                          RowOf(DefaultsOf(res'.handle)))
                   /\ Cardinality(DOMAIN db'.single) = Cardinality(DOMAIN db.single) + 1]_vars

\* exists() said no for a key without a row while another key has a row that
\* a write changed since its load.
C16_Witness ==
    /\ res.op = "exists" /\ ~res.result /\ res.key = "k2"
    /\ DOMAIN db.single = {"k1"}
    /\ db.single["k1"].name = "x"

\* C17: load() of a key that has a row gives the handle, for every declared
\* field, the stored value where the column is not NULL and the class
\* default where it is, and writes no row.
C17_LoadHydration ==
    [][(res'.op = "load" /\ res'.found) =>
          /\ \A p \in Range(MetaOf(res'.handle).fields) :
                obj'[res'.handle][p] =
                  IF MapHas(db.single[res'.key], p) THEN db.single[res'.key][p]
                  ELSE DefaultsOf(res'.handle)[p]
          /\ db'.single = db.single
          /\ committed'.single = committed.single]_vars

\* The current class loads the row the older class wrote: name comes from
\* the row, the column added by this load's migration is NULL and count is
\* the default.
C17_Witness ==
    /\ res.op = "load" /\ res.found /\ res.handle = "h1"
    /\ db.single["k1"] = [name |-> "x", legacy |-> 1]
    /\ "count" \in db.scols
    /\ obj["h1"].name = "x" /\ obj["h1"].count = 0

\* ------------------------------------------------------------ C21
\* C21: cross-API guard.  load() or exists() called with a class that is
\* registered as a collection throws the "is a @PersistedCollection ... Use
\* get() or find()" error and changes nothing: no table, no column, no row,
\* no handle, no timer and no pending save.
C21_CrossApiGuard ==
    [][(res'.op \in {"load", "exists"} /\ MapHas(collectionMeta, res'.cls)) =>
          /\ res'.err = "IsCollection"
          /\ db' = db /\ committed' = committed
          /\ hkey' = hkey /\ obj' = obj
          /\ timers' = timers /\ pendingSaves' = pendingSaves
          /\ liveTimers' = liveTimers]_vars

\* The refused load() is the first call on a fresh database: afterwards
\* there is still no table.
C21_Witness ==
    /\ res.op = "load" /\ res.cls = "TxAccount" /\ res.err = "IsCollection"
    /\ db.scols = {} /\ db.ccols = {}
    /\ hkey["hc"] = NoKey

\* ------------------------------------------------------------ C22 .. C24
\* What a declaration of class cls installs, and the properties a sequence
\* of definitions names.
ExpectedDef(cls, d) ==
    [property |-> d.property,
     column |-> IF d.column = NoOption THEN ToSnakeCase(d.property) ELSE d.column,
     type |-> d.type,
     owner |-> cls]
PropsOf(defs) == {defs[i].property : i \in 1 .. Len(defs)}
FieldsIn(cm, colm, c) == IF MapHas(cm, c) THEN cm[c].fields ELSE colm[c].fields

C23_ExactlyOneId ==
    [][res'.op = "PersistedCollection" =>
          /\ res'.err # "none" =>
                /\ collectionMeta' = collectionMeta
                /\ classMeta' = classMeta
          /\ Ancestors(res'.cls) \cap DOMAIN collectionMeta = {} =>
                /\ Len(res'.ids) = 0 => res'.err = "NoId"
                /\ Len(res'.ids) > 1 => res'.err = "MultipleId"
                /\ Len(res'.ids) = 1 =>
                      /\ res'.err = "none"
                      /\ MapHas(collectionMeta', res'.cls)
                      /\ collectionMeta'[res'.cls].idProperty = res'.ids[1].property
                      /\ collectionMeta'[res'.cls].idType = res'.ids[1].type
                      /\ collectionMeta'[res'.cls].idColumn =
                           IF res'.ids[1].column = NoOption THEN "id"
                           ELSE res'.ids[1].column]_vars

\* The definition with two ids was refused and the class has no metadata,
\* while an earlier class registered with its one id under a column option.
C23_Witness ==
    /\ res.op = "PersistedCollection" /\ res.err = "MultipleId" /\ res.cls = "C4"
    /\ ~MapHas(collectionMeta, "C4")
    /\ MapHas(collectionMeta, "C1") /\ collectionMeta["C1"].idColumn = "uid"

\* C24: no inheritance of the persistence mapping.  Persisted throws the
\* inheritance error exactly when some ancestor of the class, at any depth,
\* is in classMeta, and PersistedCollection exactly when some ancestor is in
\* collectionMeta; the refused class gets no metadata; a class without such
\* an ancestor is registered (a collection class: when it has its one id).
C24_NoInheritance ==
    [][/\ res'.op = "Persisted" =>
            /\ res'.err = "Inheritance" <=>
                  Ancestors(res'.cls) \cap DOMAIN classMeta # {}
            /\ res'.err = "Inheritance" =>
                  classMeta' = classMeta /\ ~MapHas(classMeta', res'.cls)
            /\ res'.err # "Inheritance" =>
                  res'.err = "none" /\ MapHas(classMeta', res'.cls)
       /\ res'.op = "PersistedCollection" =>
            /\ res'.err = "Inheritance" <=>
                  Ancestors(res'.cls) \cap DOMAIN collectionMeta # {}
            /\ res'.err = "Inheritance" =>
                  collectionMeta' = collectionMeta /\ ~MapHas(collectionMeta', res'.cls)
            /\ (res'.err # "Inheritance" /\ Len(res'.ids) = 1) =>
                  res'.err = "none" /\ MapHas(collectionMeta', res'.cls)]_vars

\* A class two levels below a registered singleton class was refused, after
\* a class below a plain class had registered.
C24_Witness ==
    /\ res.op = "Persisted" /\ res.cls = "S3" /\ res.err = "Inheritance"
    /\ Parent("S3") \notin DOMAIN classMeta
    /\ MapHas(classMeta, "S1") /\ ~MapHas(classMeta, "S3")

\* ------------------------------------------------------------ C25
\* C25: a write through a handle to a property the class does not declare
\* with @Field sets the property of the in-memory object and leaves
\* timers, pendingSaves, the host's scheduled timers (their remaining delay
\* included) and the store as they were.
C25_UndeclaredWriteSchedulesNothing ==
    [][(res'.op = "set" /\ res'.prop \notin FieldProps(ClassOf(res'.handle))) =>
          /\ obj'[res'.handle][res'.prop] = res'.val
          /\ \A h \in AllHandles \ {res'.handle} : obj'[h] = obj[h]
          /\ timers' = timers
          /\ pendingSaves' = pendingSaves
          /\ liveTimers' = liveTimers
          /\ db' = db /\ committed' = committed]_vars

\* The undeclared write came while a save of the key was pending with half
\* of its delay gone: the timer still has the half left.
C25_Witness ==
    /\ res.op = "set" /\ res.prop = "scratch" /\ res.val = 1
    /\ obj[res.handle].scratch = 1
    /\ MapHas(pendingSaves, hkey[res.handle])
    /\ \E t \in liveTimers :
          /\ t.key = hkey[res.handle]
          /\ t.id = timers[t.key]
          /\ t.left = DEBOUNCE_MS - TickMs

\* ------------------------------------------------------------ C26
\* C26: modify().  With no row for the id it rejects with the not-found
\* error for that id, fn is not called, no row changes and no entity is
\* handed out.  With a row it runs fn on the fetched entity, saves it and
\* resolves to it: the row then holds the entity's field value, created_at
\* as before and updated_at = now, and no other row changes.
C26_Modify ==
    [][res'.op = "modify" =>
          IF ~MapHas(db.coll, res'.id)
            THEN /\ res'.err = "NotFound"
                 /\ ~res'.called
                 /\ db'.coll = db.coll
                 /\ ents' = ents
            ELSE /\ res'.err = "none"
                 /\ res'.called
                 /\ ents'[res'.ent].live /\ ents'[res'.ent].id = res'.id
                 /\ MapHas(db'.coll, res'.id)
                 /\ CellOf(db'.coll[res'.id], "balance") = ents'[res'.ent].balance
                 /\ db'.coll[res'.id].created_at = db.coll[res'.id].created_at
                 /\ db'.coll[res'.id].updated_at = now
                 /\ \A o \in Ids \ {res'.id} : SameRow(o)]_vars

\* modify() resolved at clock 1 for a row created at clock 0: row and
\* entity both hold the value fn set, and the other row is as created.
C26_Witness ==
    /\ res.op = "modify" /\ res.err = "none" /\ res.called
    /\ Count(db.coll) = 2
    /\ ents[res.ent].balance = 1 /\ ents[res.ent].id = res.id
    /\ CellOf(db.coll[res.id], "balance") = 1
    /\ db.coll[res.id].created_at = 0 /\ db.coll[res.id].updated_at = 1

\* ------------------------------------------------------------ C27
\* A property with a defined value in an update object.
Named(updates, p) == \E i \in 1 .. Len(updates) : updates[i].prop = p /\ updates[i].def

\* C27: updateWhere() with a non-empty predicate.  A call that returns
\* reports the number of rows the predicate matched; a row outside the
\* match is as before; a matched row keeps created_at, has updated_at = now
\* (also with empty updates), keeps its id unless the updates name the id
\* and keeps its balance unless the updates name the balance.  A property of
\* the updates that is no id or field is skipped: updates naming only such
\* properties never make the call fail.
C27_UpdateWhereFrame ==
    [][res'.op = "updateWhere" /\ Conditions(res'.where) # << >>
         /\ ~UnknownIn(Conditions(res'.where)) =>
          LET u == res'.updates
              m == Matching(db.coll, Conditions(res'.where))
          IN
          /\ (\A i \in 1 .. Len(u) : u[i].prop \notin KnownProps) => res'.err = "none"
          /\ res'.err = "none" =>
                /\ res'.changes = Cardinality(m)
                /\ Count(db'.coll) = Count(db.coll)
                /\ \A a \in (DOMAIN db.coll) \ m : SameRow(a)
                /\ \A a \in m :
                      \E b \in DOMAIN db'.coll :
                          /\ (b # a) => (Named(u, "id") /\ ~MapHas(db.coll, b))
                          /\ db'.coll[b].created_at = db.coll[a].created_at
                          /\ db'.coll[b].updated_at = now
                          /\ Named(u, "balance")
                                \/ CellOf(db'.coll[b], "balance") = CellOf(db.coll[a], "balance")]_vars

\* updateWhere({id: ...}, {bogus: 1, balance: 1}) returned 1 at clock 1: the
\* matched row has the new balance and updated_at = 1, the other row is as
\* it was created at clock 0.
C27_Witness ==
    /\ res.op = "updateWhere" /\ res.err = "none" /\ res.changes = 1
    /\ res.updates = <<Eq("bogus", 1), Eq("balance", 1)>>
    /\ Count(db.coll) = 2
    /\ \E a \in Ids : \E b \in Ids \ {a} :
          /\ res.where.entries = <<Eq("id", a)>>
          /\ db.coll[a].created_at = 0 /\ db.coll[a].updated_at = 1
          /\ CellOf(db.coll[a], "balance") = 1
          /\ db.coll[b].updated_at = 0 /\ CellOf(db.coll[b], "balance") = 0

\* ------------------------------------------------------------ C28 .. C30
\* C28: a find() whose filter is one condition {op: "in", value: []} on a
\* property returns no row, and one whose filter is {op: "notIn", value: []}
\* returns every row of the store, rows holding NULL in that column
\* included; in both cases the parameter list is empty.
C28_EmptyArrays ==
    (res.op = "find" /\ res.err = "none" /\ Len(res.where.entries) = 1
        /\ res.where.entries[1].def /\ res.where.entries[1].op \in {"in", "notIn"}
        /\ Len(res.where.entries[1].val) = 0) =>
       /\ res.params = << >>
       /\ res.where.entries[1].op = "in" => res.ids = {}
       /\ res.where.entries[1].op = "notIn" => res.ids = DOMAIN db.coll

\* find({balance: {op: "notIn", value: []}}) returned both rows of a store
\* in which one row holds NULL in balance.
C28_Witness ==
    /\ res.op = "find" /\ res.err = "none"
    /\ res.where.entries = <<Cond("balance", "notIn", << >>)>>
    /\ res.ids = Ids /\ res.params = << >>
    /\ \E id \in Ids : ~MapHas(db.coll[id], "balance")

\* The entries of a filter whose value is defined, in the filter's order,
\* and their parameters one after the other.
Defined(where) ==
    IF where.given THEN SelectSeq(where.entries, LAMBDA e : e.def) ELSE << >>
ConditionOf(e) ==
    BuildOperatorCondition(GetColumn(e.prop), IF e.op = "raw" THEN "eq" ELSE e.op, e.val)
RECURSIVE ParamsOf(_)
ParamsOf(conds) ==
    IF conds = << >> THEN << >> ELSE ConditionOf(Head(conds)).params \o ParamsOf(Tail(conds))

\* C29: a buildWhere() that returns gives the empty predicate exactly when
\* the filter is undefined, has no entry or has only undefined values, and
\* then no parameter; otherwise the predicate has one condition per entry
\* with a defined value, in the filter's order, and the parameters are
\* those of these conditions in the same order.
C29_BuildWhereShape ==
    res.op = "find" /\ res.err = "none" =>
       /\ (res.sql = << >>) <=> (\A i \in 1 .. Len(res.where.entries) :
                                    ~res.where.given \/ ~res.where.entries[i].def)
       /\ res.sql = << >> => res.params = << >>
       /\ Len(res.sql) = Len(Defined(res.where))
       /\ \A k \in 1 .. Len(res.sql) : res.sql[k] = ConditionOf(Defined(res.where)[k]).sql
       /\ res.params = ParamsOf(Defined(res.where))

\* A filter with an undefined value between two conditions produced the two
\* conditions in order, the parameter of the first before that of the second.
C29_Witness ==
    /\ res.op = "find" /\ res.err = "none"
    /\ res.where.entries = <<Cond("balance", "notIn", <<0>>), NoValue("id"), Raw("id", "a1")>>
    /\ res.sql = <<Fragment("balance", "NOT IN", 1), Fragment("id", "= ?", 1)>>
    /\ res.params = <<0, "a1">>

\* v occurs in str, starts it, ends it.
Contains(str, v) ==
    \E i \in 0 .. Len(str) : i + Len(v) <= Len(str) /\ SubSeq(str, i + 1, i + Len(v)) = v
StartsWith(str, v) == Len(v) <= Len(str) /\ SubSeq(str, 1, Len(v)) = v
EndsWith(str, v) ==
    Len(v) <= Len(str) /\ SubSeq(str, Len(str) - Len(v) + 1, Len(str)) = v

\* C30: contains, startsWith and endsWith return a row exactly when its
\* column contains, starts with or ends with the caller's value as a
\* literal string, for every value over an alphabet with %, _ and \.
C30_LikeIsLiteral ==
    res.op = "findLike" =>
       res.matched = (CASE res.kind = "contains" -> Contains(res.str, res.value)
                        [] res.kind = "startsWith" -> StartsWith(res.str, res.value)
                        [] res.kind = "endsWith" -> EndsWith(res.str, res.value))

\* ------------------------------------------------------------ C31
\* A filter, or an order specification, with a defined value for a
\* property getColumn does not know.
UnknownInFilter(where) ==
    where.given /\ \E i \in 1 .. Len(where.entries) :
                       where.entries[i].def /\ where.entries[i].prop \notin QueryProps
UnknownInOrder(orderBy) ==
    \E i \in 1 .. Len(orderBy) : orderBy[i][2] # "undefined" /\ orderBy[i][1] \notin QueryProps

\* C31 as stated: such a call throws the unknown-property error, executes
\* no statement at all and leaves every row unchanged.
C31_NoStatementAtAll ==
    [][(res'.op \in {"find", "count", "updateWhere", "deleteWhere"}
          /\ UnknownInFilter(res'.where)) =>
          /\ res'.err = "UnknownProperty"
          /\ db' = db]_vars

\* C31: find and count called with a filter naming an unknown property with
\* a defined value, and find called with such an order specification
\* behind a valid filter, throw the error that lists id, the declared
\* fields, created_at and updated_at, and run no SELECT; updateWhere and
\* deleteWhere with such a filter throw it and report no change.  In all
\* four no row changes; the table, its columns and its indices are what
\* the schema statements at the head of the call make them.
C31_UnknownPropertyThrows ==
    [][/\ (res'.op \in {"find", "count"}
             /\ (UnknownInFilter(res'.where)
                   \/ (res'.op = "find" /\ BuildWhereClause(res'.where).err = "none"
                         /\ UnknownInOrder(res'.orderBy)))) =>
            /\ res'.err = "UnknownProperty"
            /\ res'.known = <<"id", "balance", "created_at", "updated_at">>
            /\ res'.stmt = NoStatement
            /\ db' = WithCollectionTable(db, CollMeta)
            /\ db'.coll = db.coll
       /\ (res'.op \in {"updateWhere", "deleteWhere"} /\ UnknownInFilter(res'.where)) =>
            /\ res'.err = "UnknownProperty"
            /\ res'.changes = 0
            /\ db' = WithCollectionTable(db, CollMeta)
            /\ db'.coll = db.coll]_vars

\* find() threw for an order specification naming "bogus" behind a filter
\* that selects a stored row; both rows are still there.
C31_Witness ==
    /\ res.op = "find" /\ res.err = "UnknownProperty"
    /\ res.where = OneWhere(Raw("balance", 1))
    /\ res.orderBy = <<<<"bogus", "asc">>>>
    /\ Count(db.coll) = 2
    /\ \E id \in Ids : CellOf(db.coll[id], "balance") = 1

\* ------------------------------------------------------------ C32
\* C32: round trip.  For every field type, a string, a finite number, a
\* boolean or a valid Date serializes without error and deserializes to an
\* equal value; null and undefined serialize to NULL; NULL deserializes to
\* null; and a stored value deserializes as boolean to true exactly when it
\* is the integer 1 or the boolean true.
C32_RoundTrip ==
    /\ res.op = "roundTrip" =>
          /\ Representable(res.value) => (res.err = "none" /\ res.back = res.value)
          /\ res.value[1] \in {"null", "undefined"} =>
                (res.err = "none" /\ res.stored = JsNull /\ res.back = JsNull)
    /\ res.op = "deserialize" =>
          /\ res.value = JsNull => res.back = JsNull
          /\ (res.type = "boolean" /\ res.value[1] \notin {"null", "undefined"}) =>
                /\ res.back[1] = "boolean"
                /\ res.back[2] <=> (res.value = JsNumber(1) \/ res.value = JsBoolean(TRUE))

\* A Date of one millisecond came back equal through its ISO text.
C32_Witness ==
    /\ res.op = "roundTrip" /\ res.err = "none" /\ res.type = "date"
    /\ res.value = JsDate(1)
    /\ res.stored = JsString("1970-01-01T00:00:00.001Z")
    /\ res.back = JsDate(1)

\* ------------------------------------------------------------ C33
\* C33: the statement find() assembles has the shape
\* SELECT [WHERE] [ORDER BY] [LIMIT ? [OFFSET ?]]: an OFFSET clause only
\* directly after a LIMIT clause, and the bind parameters are the
\* predicate's parameters, then the limit, then the offset.
C33_OffsetOnlyWithLimit ==
    (res.op = "find" /\ res.err \in {"none", "SyntaxError"}) =>
        LET c == res.asked.clauses IN
        /\ \A i \in 1 .. Len(c) : c[i] = "OFFSET ?" => (i > 1 /\ c[i - 1] = "LIMIT ?")
        /\ res.asked.params = res.params \o res.limit \o res.offset

\* ------------------------------------------------------------ C34
\* C34: between two steps of loader code, a save-key has an entry in
\* pendingSaves exactly when it has one in timers, also after a save that
\* raised an error: no pending save is left without a timer that will run it.
C34_PendingIffTimer ==
    \A k \in Keys : MapHas(pendingSaves, k) <=> MapHas(timers, k)

\* ------------------------------------------------------------ C35
\* C35: two handles A and B loaded for the same key.  When B writes a
\* declared field while the save A scheduled is still pending, the write
\* stores nothing, B's save replaces A's and one timer is left for the key;
\* the step that then runs the key's save executes one UPDATE, which stores
\* the field state of the last writer's object, and leaves neither a pending
\* save nor a timer for the key; with nothing pending for a key no timer or
\* flush changes its row.
C35_LastHandleWins ==
    [][\A k \in Keys :
         /\ ( /\ res'.op = "set" /\ res'.prop \in DeclaredFields
              /\ hkey[res'.handle] = k
              /\ MapHas(pendingSaves, k) /\ pendingSaves[k] # res'.handle ) =>
                /\ db' = db
                /\ pendingSaves'[k] = res'.handle
                /\ Cardinality({t \in liveTimers' : t.key = k}) = 1
         /\ ( /\ ev'.op \in {"fire", "flush"}
              /\ MapHas(pendingSaves, k) /\ ev'.n[k] > 0 ) =>
                /\ ev'.n[k] = 1
                /\ db'.single[k] = RowOf(obj'[pendingSaves[k]])
                /\ ~MapHas(pendingSaves', k) /\ ~MapHas(timers', k)
                /\ \A t \in liveTimers' : t.key # k
         /\ (ev'.op \in {"fire", "flush"} /\ ~MapHas(pendingSaves, k)) =>
                (MapHas(db.single, k) => db'.single[k] = db.single[k])]_vars

\* Both handles are loaded for k1; h1 holds count = 1, which it wrote, and
\* the one save of a rescheduled series stored h2's fields, count = 0.
C35_Witness ==
    /\ hkey["h1"] = "k1" /\ hkey["h2"] = "k1"
    /\ ev.op = "fire" /\ ev.n["k1"] = 1 /\ ev.re
    /\ obj["h1"].count = 1
    /\ obj["h2"] = [name |-> "x", count |-> 0, scratch |-> 0]
    /\ db.single["k1"] = [name |-> "x", count |-> 0]
    /\ ~MapHas(pendingSaves, "k1") /\ liveTimers = {}

\* ------------------------------------------------------------ C36
\* C36: a debounced save that has executed is durable.  A row that is stored
\* before and after a step keeps its values unless the step executed an
\* UPDATE of it: in particular a ROLLBACK of a transaction that was open
\* while the save ran does not take the saved values back.
C36_SavedIsDurable ==
    [][\A k \in Keys :
         (MapHas(db.single, k) /\ MapHas(db'.single, k) /\ ev'.n[k] = 0) =>
             db'.single[k] = db.single[k]]_vars

\* ------------------------------------------------------------ C37
\* C37: a transaction() call whose BEGIN is refused because a transaction is
\* open issues neither COMMIT nor ROLLBACK: the open transaction stays open
\* with its writes.  When the outer callback caught that error and returned,
\* the outer call commits, its writes included; when the outer callback let
\* it escape, the outer call issues the one ROLLBACK, which succeeds, and
\* rejects with the error.
C37_FailedBeginEndsNothing ==
    [][/\ (res'.op = "begin" /\ res'.err = "NestedBegin") =>
             /\ inTx /\ inTx'
             /\ db' = db /\ committed' = committed
             /\ txPre' = txPre /\ fnWrote' = fnWrote
       /\ (res'.op = "settle" /\ res'.nestedCaught /\ ~res'.threw) =>
             /\ inTx /\ ~inTx'
             /\ res'.outcome = "resolved"
             /\ db' = db /\ committed' = db
             /\ \A id \in DOMAIN res'.wrote : MapHas(committed'.coll, id)
       /\ (res'.op = "settle" /\ res'.nestedFail) =>
             /\ res'.threw
             /\ inTx /\ ~inTx'
             /\ res'.outcome = "rejected" /\ res'.result = "NestedBegin"
             /\ db' = committed /\ committed' = committed]_vars

\* The outer callback wrote a row, caught the inner call's error and
\* returned: the row is committed.
C37_Witness ==
    /\ res.op = "settle" /\ res.nestedCaught /\ ~res.threw
    /\ res.outcome = "resolved"
    /\ res.wrote # EmptyMap
    /\ \A id \in DOMAIN res.wrote : MapHas(committed.coll, id)
    /\ ~inTx

\* ------------------------------------------------------------ C38
\* C38: modify() reads, mutates and writes without yielding.  A modify call
\* stores what it read plus its own change; when another modify call on the
\* same id was started before it, awaited or not, it read the balance that
\* call wrote, so the stored balance carries both changes.
C38_NoLostUpdate ==
    [][(res'.op = "modifyCall" /\ res'.err = "none") =>
          LET e == res'.ent
              id == res'.id
          IN
          /\ ents'[e].pending /\ ents'[e].id = id
          /\ ents'[e].read = CellOf(db.coll[id], "balance")
          /\ CellOf(db'.coll[id], "balance") = ents'[e].read + res'.delta
          /\ \A o \in ModifyCalls \ {e} :
                (ents[o].live /\ ents[o].id = id) =>
                    /\ ents'[e].read = ents[o].balance
                    /\ CellOf(db'.coll[id], "balance") =
                          ents[o].read + (ents[o].balance - ents[o].read) + res'.delta]_vars

\* m1 added 1 to a1's balance 0 and is not yet resolved; m2 was called,
\* read 1 and added 2: the row holds 3.
C38_Witness ==
    /\ res.op = "modifyCall" /\ res.ent = "m2" /\ res.id = "a1" /\ res.delta = 2
    /\ ents["m1"].pending /\ ents["m1"].id = "a1"
    /\ ents["m1"].read = 0 /\ ents["m1"].balance = 1
    /\ ents["m2"].pending /\ ents["m2"].read = 1 /\ ents["m2"].balance = 3
    /\ CellOf(db.coll["a1"], "balance") = 3

\* ------------------------------------------------------------ C39
\* C39: a class-level registration call that throws leaves its accumulator
\* of staged declarations empty, and a class that registers has in its
\* metadata exactly the fields declared in its own body.
C39_ThrowClearsAccumulator ==
    [][/\ (res'.op = "Persisted" /\ res'.err # "none") => globalPendingFields' = << >>
       /\ (res'.op = "PersistedCollection" /\ res'.err # "none") =>
             collPending' = EmptyPending
       /\ (res'.op \in {"Persisted", "PersistedCollection"} /\ res'.err = "none") =>
             Range(FieldsIn(classMeta', collectionMeta', res'.cls)) =
                {ExpectedDef(res'.cls, res'.decls[i]) : i \in 1 .. Len(res'.decls)}]_vars

====
